---------------------------- MODULE Spec2Model ----------------------------
(***************************************************************************)
(* Model of the connection layer (transport/index.ts), of the operations,  *)
(* of the execute loops and of the polling trigger (EthereumTrigger.poll)  *)
(* of n8n-nodes-ethereum.                                                  *)
(*                                                                         *)
(* The specifications that share the module:                               *)
(*   SpecPoll     a sequence of serialized poll cycles of one trigger      *)
(*   SpecRpcUrl   buildRpcUrl applied to one credentials object            *)
(*   SpecResolve  resolveAddress applied to an input, then to its result   *)
(*   SpecConnect  createConnection applied to one credentials object       *)
(*   SpecSign     one operation called on a connection                     *)
(*   SpecScan     one poll cycle of a log branch over the logs of a chain  *)
(*   SpecExec     execute looping over its input items                     *)
(*   SpecHttp     one item of a resource handler of the HTTP-based node    *)
(*   SpecJson     toJsonSafe applied to a value, then to its result        *)
(*   SpecWsUrl    buildWsUrl applied to one credentials object             *)
(*   SpecActivity one addressActivity scan of the trigger over a ledger    *)
(*   SpecReplace  speedUpTransaction or cancelTransaction called once      *)
(*   SpecOverlap  poll cycles of one trigger that overlap at their awaits  *)
(***************************************************************************)
EXTENDS Integers, Sequences, FiniteSets, TLC

VARIABLES
    params,      \* node parameters of the trigger: event, options, flags
    staticData,  \* getWorkflowStaticData('node'): lastBlock, or not yet set
    cycle,       \* what the most recent poll cycle observed and did
    history,     \* the block ranges processed by the earlier cycles
    cycles,      \* number of poll cycles run so far
    credentials, \* the EthereumCredentials handed to buildRpcUrl
    rpc,         \* outcome of buildRpcUrl on credentials
    ens,         \* what provider.resolveName answers for a name
    resolution,  \* the resolveAddress calls made so far and their outcomes
    connection,  \* outcome of createConnection on credentials
    signing,     \* outcome of an operation called on connection
    chain,       \* the logs the remote node holds, in chain order
    scan,        \* outcome of one poll cycle over the logs of chain
    exec,        \* the run of execute over the input items: position, records, trace
    http,        \* one item of a handler of the HTTP-based node: request, response, outcome
    json,        \* a value handed to toJsonSafe, and what one and two passes return
    ws,          \* outcome of buildWsUrl on credentials
    ledger,      \* the blocks the remote node holds, with their transactions
    activity,    \* outcome of one addressActivity scan over ledger
    replacement, \* a speedUpTransaction or cancelTransaction call: its inputs and outcome
    overlap      \* two poll cycles of one trigger in flight: positions, locals, ranges processed

vars == <<params, staticData, cycle, history, cycles, credentials, rpc, ens,
          resolution, connection, signing, chain, scan, exec, http, json, ws,
          ledger, activity, replacement, overlap>>

pollVars == <<params, staticData, cycle, history, cycles>>
urlVars == <<credentials, rpc>>
resolveVars == <<ens, resolution>>
connectVars == <<connection>>
signVars == <<signing>>
scanVars == <<chain, scan>>
execVars == <<exec>>
httpVars == <<http>>
jsonVars == <<json>>
wsVars == <<ws>>
activityVars == <<ledger, activity>>
replaceVars == <<replacement>>
overlapVars == <<overlap>>

(***************************************************************************)
(* Bounds of the exploration.                                              *)
(***************************************************************************)
MaxHead == 3        \* small chain heads are 0..MaxHead
MaxCycles == 3      \* poll cycles explored per behaviour
MaxRecords == 2     \* records a log query may return
MaxLogs == 2        \* logs the remote node holds
MaxLogBlock == 2    \* the logs lie in blocks 1..MaxLogBlock
MaxItems == 3       \* input items handed to execute
MaxTxBlock == 2     \* the ledger holds blocks 1..MaxTxBlock
MaxTxs == 1         \* transactions in a block of the ledger

(***************************************************************************)
(* Values of the variables of the operations a specification leaves out.   *)
(***************************************************************************)
NoCredentials ==
    [network |-> "mainnet", rpcProvider |-> "public", apiKey |-> "",
     customRpcUrl |-> ""]
NoRpc == [status |-> "unused", value |-> ""]
NoEns == "unused"
NoResolution == <<>>
NoConnection == [status |-> "unused"]
NoSigning == [status |-> "unused"]
NoChain == <<>>
NoScan == [status |-> "unused"]
NoExec == [status |-> "unused"]
NoHttp == [status |-> "unused"]
NoJson == [status |-> "unused"]
NoWs == [status |-> "unused", value |-> ""]
NoLedger == <<>>
NoActivity == [status |-> "unused"]
NoReplacement == [status |-> "unused"]
NoOverlap == [status |-> "unused"]

NoParams ==
    [event |-> "newBlock", includeBlockDetails |-> FALSE,
     options |-> [batchSize |-> 0, startBlock |-> 0]]
NoStaticData == [isSet |-> FALSE, lastBlock |-> 0]

(***************************************************************************)
(* EthereumTrigger.poll  (nodes/Ethereum/Ethereum.node.ts)                 *)
(***************************************************************************)

\* default of `(options.batchSize as number) || 100`
DefaultBatchSize == 100

\* The five event types of the trigger, and a value outside the option list.
KnownEvents == {"newBlock", "contractEvent", "addressActivity", "tokenTransfer", "nftTransfer"}
Events == KnownEvents \cup {"other"}

\* options.batchSize as configured; 0 stands for every falsy value (absent, 0).
\* The number field has no minimum, so a negative value can be configured.
BatchSizes == {-2, 0, 1, 2}

\* options.startBlock as configured; 0 stands for every falsy value.
StartBlocks == {0, 2, 1000}

\* Chain heads provider.getBlockNumber() may answer, in any order.
Heads == (0..MaxHead) \cup {1050, 1110}

Min(a, b) == IF a <= b THEN a ELSE b

\* const batchSize = (options.batchSize as number) || 100;
BatchSize(options) ==
    IF options.batchSize # 0 THEN options.batchSize ELSE DefaultBatchSize

\* Faulty variant: without a start block, seeds the chain head itself.
SeedLastBlockAtHead(options, currentBlock) ==
    IF options.startBlock > 0 THEN options.startBlock - 1 ELSE currentBlock
\* Faulty variant: seeds the start block itself.
SeedLastBlockAtStart(options, currentBlock) ==
    IF options.startBlock > 0 THEN options.startBlock ELSE currentBlock - 1
\* const startBlock = (options.startBlock as number) || 0;
\* lastBlock = startBlock > 0 ? startBlock - 1 : currentBlock - 1;
SeedLastBlock(options, currentBlock) ==
    IF options.startBlock > 0 THEN options.startBlock - 1 ELSE currentBlock - 1

\* Faulty variant: compares with < in place of <=.
NoNewBlocksStrict(currentBlock, lastBlock) == currentBlock < lastBlock
\* if (currentBlock <= lastBlock) return null;
NoNewBlocks(currentBlock, lastBlock) == currentBlock <= lastBlock

\* Faulty variant: starts at the watermark itself.
FromBlockRepeated(lastBlock) == lastBlock
\* const fromBlock = lastBlock + 1;
FromBlock(lastBlock) == lastBlock + 1

\* const toBlock = Math.min(currentBlock, fromBlock + batchSize - 1);
ToBlock(currentBlock, fromBlock, batchSize) ==
    Min(currentBlock, fromBlock + batchSize - 1)

\* try { ...; staticData.lastBlock = toBlock; }
WatermarkOnSuccess(lastBlock, toBlock, currentBlock) == toBlock

\* Faulty variant: jumps to the chain head.
WatermarkOnErrorAtHead(lastBlock, toBlock, currentBlock) == currentBlock
\* catch (error) { staticData.lastBlock = toBlock; throw error; }
WatermarkOnError(lastBlock, toBlock, currentBlock) == toBlock

\* Number of block numbers in [fromBlock, toBlock].
RangeSize(fromBlock, toBlock) ==
    IF toBlock >= fromBlock THEN toBlock - fromBlock + 1 ELSE 0

\* Which branch of the if / else-if chain on `event` runs: one of the five
\* queries, or none when event is no listed value.
QueryFor(event) == IF event \in KnownEvents THEN event ELSE "none"

\* Whether the branch makes a call that can throw. The newBlock branch without
\* block details only pushes {blockNumber, timestamp} stubs; a value of event
\* outside the list runs no branch.
CanThrow(p) ==
    \/ p.event \in KnownEvents \ {"newBlock"}
    \/ p.event = "newBlock" /\ p.includeBlockDetails

\* returnData.length after the branch ran to completion. `found` is what the
\* remote node had to offer (logs, transactions, non-null blocks).
Emitted(p, fromBlock, toBlock, found) ==
    CASE p.event = "newBlock" /\ ~p.includeBlockDetails -> RangeSize(fromBlock, toBlock)
      [] p.event = "newBlock" /\ p.includeBlockDetails -> Min(found, RangeSize(fromBlock, toBlock))
      [] p.event \in KnownEvents \ {"newBlock"} -> found
      [] OTHER -> 0

\* Faulty variant: a poll that fails early leaves lastBlock set.
OnEarlyFailureSet(sd) == [sd EXCEPT !.isSet = TRUE]
\* getCredentials, createConnectionFromCredentials or getBlockNumber throws:
\* poll() is left before staticData.lastBlock is assigned.
OnEarlyFailure(sd) == sd

NoCycle ==
    [outcome |-> "none", result |-> "none", wasSet |-> FALSE, before |-> 0,
     lastBlock |-> 0, currentBlock |-> 0, fromBlock |-> 0, toBlock |-> 0,
     batchSize |-> 0, query |-> "none", emitted |-> 0]

\* One whole run of poll(). Inputs: the chain head answered, whether the cycle
\* fails before the range is computed (credentials, connection or the
\* chain-head call throw), whether the event query throws, and what the node
\* has to offer. Yields the new staticData and the record of the cycle.
PollRun(p, sd, currentBlock, failsEarly, queryThrows, found) ==
    LET batchSize == BatchSize(p.options)
        lastBlock == IF sd.isSet THEN sd.lastBlock
                     ELSE SeedLastBlock(p.options, currentBlock)
        seeded    == [isSet |-> TRUE, lastBlock |-> lastBlock]
        fromBlock == FromBlock(lastBlock)
        toBlock   == ToBlock(currentBlock, fromBlock, batchSize)
        threw     == queryThrows /\ CanThrow(p)
        emitted   == IF threw THEN 0 ELSE Emitted(p, fromBlock, toBlock, found)
        base      == [NoCycle EXCEPT !.wasSet = sd.isSet, !.before = sd.lastBlock]
        seen      == [base EXCEPT !.lastBlock = lastBlock,
                                  !.currentBlock = currentBlock,
                                  !.batchSize = batchSize]
    IN  IF failsEarly THEN
            [sd |-> OnEarlyFailure(sd),
             cycle |-> [base EXCEPT !.outcome = "failed", !.result = "error"]]
        ELSE IF NoNewBlocks(currentBlock, lastBlock) THEN
            [sd |-> seeded,
             cycle |-> [seen EXCEPT !.outcome = "idle", !.result = "null"]]
        ELSE IF threw THEN
            [sd |-> [isSet |-> TRUE,
                     lastBlock |-> WatermarkOnError(lastBlock, toBlock, currentBlock)],
             cycle |-> [seen EXCEPT !.outcome = "processed", !.result = "error",
                                    !.fromBlock = fromBlock, !.toBlock = toBlock,
                                    !.query = QueryFor(p.event)]]
        ELSE
            [sd |-> [isSet |-> TRUE,
                     lastBlock |-> WatermarkOnSuccess(lastBlock, toBlock, currentBlock)],
             cycle |-> [seen EXCEPT !.outcome = "processed",
                                    !.result = IF emitted = 0 THEN "null" ELSE "data",
                                    !.fromBlock = fromBlock, !.toBlock = toBlock,
                                    !.query = QueryFor(p.event),
                                    !.emitted = emitted]]

NoHistory ==
    [processed |-> 0, lastTo |-> 0, covered |-> {}, seeded |-> FALSE,
     firstHead |-> 0]

\* The ranges processed so far, extended by the cycle just run, and the
\* chain head observed by the cycle that seeded lastBlock.
Record(h, c) ==
    LET first == IF ~h.seeded /\ c.outcome \in {"idle", "processed"}
                 THEN [h EXCEPT !.seeded = TRUE, !.firstHead = c.currentBlock]
                 ELSE h
    IN  IF c.outcome = "processed"
        THEN [first EXCEPT !.processed = Min(h.processed + 1, 2),
                           !.lastTo = c.toBlock,
                           !.covered = h.covered \cup (c.fromBlock..c.toBlock)]
        ELSE first

InitPoll ==
    /\ params \in [event : Events,
                   includeBlockDetails : BOOLEAN,
                   options : [batchSize : BatchSizes, startBlock : StartBlocks]]
    /\ params.event # "newBlock" => ~params.includeBlockDetails
    /\ staticData = NoStaticData
    /\ cycle = NoCycle
    /\ history = NoHistory
    /\ cycles = 0
    /\ credentials = NoCredentials /\ rpc = NoRpc
    /\ ens = NoEns /\ resolution = NoResolution
    /\ connection = NoConnection /\ signing = NoSigning
    /\ chain = NoChain /\ scan = NoScan
    /\ exec = NoExec
    /\ http = NoHttp
    /\ json = NoJson
    /\ ws = NoWs
    /\ ledger = NoLedger /\ activity = NoActivity
    /\ replacement = NoReplacement
    /\ overlap = NoOverlap

\* The host runs one poll cycle of the trigger to its end (polls of one
\* trigger are serialized by the host).
Poll ==
    /\ cycles < MaxCycles
    /\ \E currentBlock \in Heads, failsEarly, queryThrows \in BOOLEAN,
          found \in 0..MaxRecords :
          LET run == PollRun(params, staticData, currentBlock, failsEarly,
                             queryThrows, found)
          IN  /\ staticData' = run.sd
              /\ cycle' = run.cycle
              /\ history' = Record(history, run.cycle)
    /\ cycles' = cycles + 1
    /\ UNCHANGED params


(***************************************************************************)
(* buildRpcUrl  (src/transport/index.ts) and NETWORKS (types)              *)
(***************************************************************************)

\* An optional string that was not supplied (undefined).
Absent == "<undefined>"

\* Faulty variant: takes the empty string for a value.
FalsyAbsentOnly(s) == s = Absent
\* JavaScript truthiness of an optional string: undefined and '' are falsy.
Falsy(s) == s = Absent \/ s = ""

\* NetworkId: the keys of NETWORKS.
NetworkIds ==
    {"mainnet", "sepolia", "goerli", "holesky", "polygon",
     "polygon-amoy", "arbitrum", "arbitrum-sepolia", "optimism", "optimism-sepolia",
     "base", "base-sepolia", "avalanche",
     "avalanche-fuji", "bsc", "bsc-testnet", "custom"}

\* NETWORKS[network].rpcUrls, a template missing from the table being Absent.
RpcUrls(network) ==
    CASE network = "mainnet" -> [alchemy |-> "eth-mainnet.g.alchemy.com/v2", infura |-> "mainnet.infura.io/v3",
           ankr |-> "rpc.ankr.com/eth", public |-> "eth.llamarpc.com"]
      [] network = "sepolia" -> [alchemy |-> "eth-sepolia.g.alchemy.com/v2", infura |-> "sepolia.infura.io/v3",
           ankr |-> "rpc.ankr.com/eth_sepolia", public |-> "rpc.sepolia.org"]
      [] network = "goerli" -> [alchemy |-> "eth-goerli.g.alchemy.com/v2", infura |-> "goerli.infura.io/v3",
           ankr |-> "rpc.ankr.com/eth_goerli", public |-> "rpc.goerli.mudit.blog"]
      [] network = "holesky" -> [alchemy |-> "eth-holesky.g.alchemy.com/v2", infura |-> "holesky.infura.io/v3",
           ankr |-> "rpc.ankr.com/eth_holesky", public |-> "ethereum-holesky.publicnode.com"]
      [] network = "polygon" -> [alchemy |-> "polygon-mainnet.g.alchemy.com/v2", infura |-> "polygon-mainnet.infura.io/v3",
           ankr |-> "rpc.ankr.com/polygon", public |-> "polygon-rpc.com"]
      [] network = "polygon-amoy" -> [alchemy |-> "polygon-amoy.g.alchemy.com/v2", infura |-> "polygon-amoy.infura.io/v3",
           ankr |-> "rpc.ankr.com/polygon_amoy", public |-> "rpc-amoy.polygon.technology"]
      [] network = "arbitrum" -> [alchemy |-> "arb-mainnet.g.alchemy.com/v2", infura |-> "arbitrum-mainnet.infura.io/v3",
           ankr |-> "rpc.ankr.com/arbitrum", public |-> "arb1.arbitrum.io/rpc"]
      [] network = "arbitrum-sepolia" -> [alchemy |-> "arb-sepolia.g.alchemy.com/v2", infura |-> "arbitrum-sepolia.infura.io/v3",
           ankr |-> "rpc.ankr.com/arbitrum_sepolia", public |-> "sepolia-rollup.arbitrum.io/rpc"]
      [] network = "optimism" -> [alchemy |-> "opt-mainnet.g.alchemy.com/v2", infura |-> "optimism-mainnet.infura.io/v3",
           ankr |-> "rpc.ankr.com/optimism", public |-> "mainnet.optimism.io"]
      [] network = "optimism-sepolia" -> [alchemy |-> "opt-sepolia.g.alchemy.com/v2", infura |-> "optimism-sepolia.infura.io/v3",
           ankr |-> "rpc.ankr.com/optimism_sepolia", public |-> "sepolia.optimism.io"]
      [] network = "base" -> [alchemy |-> "base-mainnet.g.alchemy.com/v2", infura |-> "base-mainnet.infura.io/v3",
           ankr |-> "rpc.ankr.com/base", public |-> "mainnet.base.org"]
      [] network = "base-sepolia" -> [alchemy |-> "base-sepolia.g.alchemy.com/v2", infura |-> "base-sepolia.infura.io/v3",
           ankr |-> "rpc.ankr.com/base_sepolia", public |-> "sepolia.base.org"]
      [] network = "avalanche" -> [alchemy |-> Absent, infura |-> "avalanche-mainnet.infura.io/v3",
           ankr |-> "rpc.ankr.com/avalanche", public |-> "api.avax.network/ext/bc/C/rpc"]
      [] network = "avalanche-fuji" -> [alchemy |-> Absent, infura |-> "avalanche-fuji.infura.io/v3",
           ankr |-> "rpc.ankr.com/avalanche_fuji", public |-> "api.avax-test.network/ext/bc/C/rpc"]
      [] network = "bsc" -> [alchemy |-> Absent, infura |-> Absent,
           ankr |-> "rpc.ankr.com/bsc", public |-> "bsc-dataseed.binance.org"]
      [] network = "bsc-testnet" -> [alchemy |-> Absent, infura |-> Absent,
           ankr |-> "rpc.ankr.com/bsc_testnet_chapel", public |-> "data-seed-prebsc-1-s1.binance.org:8545"]
      [] network = "custom" -> [alchemy |-> Absent, infura |-> Absent,
           ankr |-> Absent, public |-> Absent]

\* networkConfig.rpcUrls[rpcProvider]: rpcUrls has the keys alchemy, infura,
\* ankr and public only.
ProviderUrl(network, rpcProvider) ==
    IF rpcProvider \in {"alchemy", "infura", "ankr", "public"}
    THEN RpcUrls(network)[rpcProvider]
    ELSE Absent

\* Faulty variant: tests the provider only.
IsCustomProviderOnly(c) == c.rpcProvider = "custom"
\* if (rpcProvider === 'custom' || network === 'custom')
IsCustom(c) == c.rpcProvider = "custom" \/ c.network = "custom"

\* Faulty variant: leaves the key segment out.
WithKeyDropped(providerUrl, apiKey) == "https://" \o providerUrl
\* `https://${providerUrl}/${apiKey}`
WithKey(providerUrl, apiKey) == "https://" \o providerUrl \o "/" \o apiKey

\* `https://${providerUrl}`
WithoutKey(providerUrl) == "https://" \o providerUrl

Ok(url) == [status |-> "ok", value |-> url]
Error(message) == [status |-> "error", value |-> message]

buildRpcUrl(c) ==
    IF IsCustom(c) THEN
        IF Falsy(c.customRpcUrl)
        THEN Error("Custom RPC URL is required for custom provider/network")
        ELSE Ok(c.customRpcUrl)
    ELSE IF c.network \notin NetworkIds THEN
        Error("Unknown network: " \o c.network)
    ELSE IF c.rpcProvider = "public" THEN
        IF Falsy(RpcUrls(c.network).public)
        THEN Error("No public RPC available for network: " \o c.network)
        ELSE Ok(WithoutKey(RpcUrls(c.network).public))
    ELSE IF Falsy(c.apiKey) THEN
        Error("API key is required for " \o c.rpcProvider \o " provider")
    ELSE IF Falsy(ProviderUrl(c.network, c.rpcProvider)) THEN
        Error("Provider " \o c.rpcProvider \o " not available for network: " \o c.network)
    ELSE
        LET providerUrl == ProviderUrl(c.network, c.rpcProvider)
        IN  CASE c.rpcProvider = "alchemy" -> Ok(WithKey(providerUrl, c.apiKey))
              [] c.rpcProvider = "infura" -> Ok(WithKey(providerUrl, c.apiKey))
              [] c.rpcProvider = "ankr" ->
                    IF ~Falsy(c.apiKey) THEN Ok(WithKey(providerUrl, c.apiKey))
                    ELSE Ok(WithoutKey(providerUrl))
              [] c.rpcProvider = "quicknode" ->
                    IF ~Falsy(c.customRpcUrl) THEN Ok(c.customRpcUrl)
                    ELSE Ok(WithKey(providerUrl, c.apiKey))
              [] OTHER -> Error("Unknown RPC provider: " \o c.rpcProvider)

\* Credential values explored: every network of the table and one that is
\* not in it, every provider of the RpcProvider type and one that is not.
Networks == NetworkIds \cup {"localnet"}
Providers == {"alchemy", "infura", "ankr", "quicknode", "public", "custom", "other"}
ApiKeys == {Absent, "", "KEY123"}
CustomRpcUrls == {Absent, "", "https://node.example/rpc"}

InitRpcUrl ==
    /\ credentials \in [network : Networks, rpcProvider : Providers,
                        apiKey : ApiKeys, customRpcUrl : CustomRpcUrls]
    /\ rpc = [status |-> "none", value |-> ""]
    /\ params = NoParams /\ staticData = NoStaticData
    /\ cycle = NoCycle /\ history = NoHistory /\ cycles = 0
    /\ ens = NoEns /\ resolution = NoResolution
    /\ connection = NoConnection /\ signing = NoSigning
    /\ chain = NoChain /\ scan = NoScan
    /\ exec = NoExec
    /\ http = NoHttp
    /\ json = NoJson
    /\ ws = NoWs
    /\ ledger = NoLedger /\ activity = NoActivity
    /\ replacement = NoReplacement
    /\ overlap = NoOverlap

\* buildRpcUrl(credentials) is called.
BuildRpcUrl ==
    /\ rpc.status = "none"
    /\ rpc' = buildRpcUrl(credentials)
    /\ UNCHANGED credentials

(***************************************************************************)
(* resolveAddress  (src/transport/index.ts)                                *)
(*                                                                         *)
(* Strings are sequences of characters. An address has HexLen hex digits   *)
(* in place of 40, and Digest stands in place of keccak256 in the          *)
(* EIP-55 checksum computed by the ethers library.                         *)
(***************************************************************************)
HexLen == 2

Chars == {"0", "x", "a", "A", ".", "g"}
HexChars == {"0", "a", "A"}
UpperHex == {"A"}
LowerHex == {"a"}

ToLower(c) == IF c = "A" THEN "a" ELSE c
ToUpper(c) == IF c = "a" THEN "A" ELSE c

\* The strings explored: up to a prefixed address with one character more.
Strings == UNION {[1..k -> Chars] : k \in 0..(HexLen + 3)}

HasPrefix(s) == Len(s) >= 2 /\ s[1] = "0" /\ s[2] = "x"

\* /^(0x)?[0-9a-fA-F]{40}$/
MatchesHexAddress(s) ==
    LET body == IF HasPrefix(s) THEN SubSeq(s, 3, Len(s)) ELSE s
    IN  Len(body) = HexLen /\ \A i \in 1..HexLen : body[i] \in HexChars

\* Bit i of the digest of the lower-cased digits.
Digest(digits, i) ==
    (Cardinality({j \in 1..Len(digits) : digits[j] \in LowerHex}) + i) % 2

\* getChecksumAddress: lower-case the digits, then upper-case each letter
\* whose digest bit is set.
getChecksumAddress(s) ==
    LET digits == [i \in 1..HexLen |-> ToLower(s[i + 2])]
    IN  <<"0", "x">> \o [i \in 1..HexLen |->
            IF digits[i] \in LowerHex /\ Digest(digits, i) = 1
            THEN ToUpper(digits[i]) ELSE digits[i]]

\* /([A-F].*[a-f])|([a-f].*[A-F])/
MixedCase(s) ==
    /\ \E i \in 1..Len(s) : s[i] \in UpperHex
    /\ \E i \in 1..Len(s) : s[i] \in LowerHex

\* ethers getAddress: the checksummed form of a hex address; fails on any
\* other string and on a mixed-case address whose checksum is wrong.
getAddress(s) ==
    IF ~MatchesHexAddress(s) THEN [ok |-> FALSE, value |-> <<>>]
    ELSE LET address == IF HasPrefix(s) THEN s ELSE <<"0", "x">> \o s
             result == getChecksumAddress(address)
         IN  IF MixedCase(address) /\ result # address
             THEN [ok |-> FALSE, value |-> <<>>]
             ELSE [ok |-> TRUE, value |-> result]

\* ethers isAddress: whether getAddress succeeds.
isAddress(s) == getAddress(s).ok

\* What provider.resolveName(name) can do: answer null, answer an address,
\* or throw.
EnsAnswers == {"null", "address", "throws"}
EnsAddress == getChecksumAddress(<<"0", "x">> \o [i \in 1..HexLen |-> "a"])

\* Faulty variant: returns the input as given.
ReturnAsGiven(addressOrEns) == addressOrEns
\* if (isAddress(addressOrEns)) return getAddress(addressOrEns);
ReturnChecksummed(addressOrEns) == getAddress(addressOrEns).value

\* Faulty variant: takes every string for a name.
HasDotAlways(addressOrEns) == TRUE
\* String(addressOrEns).indexOf('.') !== -1
HasDot(addressOrEns) == \E i \in 1..Len(addressOrEns) : addressOrEns[i] = "."

\* One call of resolveAddress(addressOrEns, provider); `calls` counts the
\* provider calls made.
resolveAddress(addressOrEns, answer) ==
    IF isAddress(addressOrEns) THEN
        [input |-> addressOrEns, status |-> "ok",
         value |-> ReturnChecksummed(addressOrEns), error |-> "", calls |-> 0]
    ELSE IF HasDot(addressOrEns) THEN
        CASE answer = "throws" ->
                [input |-> addressOrEns, status |-> "error", value |-> <<>>,
                 error |-> "provider error", calls |-> 1]
          [] answer = "null" ->
                [input |-> addressOrEns, status |-> "error", value |-> <<>>,
                 error |-> "Could not resolve ENS name", calls |-> 1]
          [] OTHER ->
                [input |-> addressOrEns, status |-> "ok", value |-> EnsAddress,
                 error |-> "", calls |-> 1]
    ELSE
        [input |-> addressOrEns, status |-> "error", value |-> <<>>,
         error |-> "Invalid address or ENS name", calls |-> 0]

InitResolve ==
    /\ ens \in EnsAnswers
    /\ resolution = <<>>
    /\ params = NoParams /\ staticData = NoStaticData
    /\ cycle = NoCycle /\ history = NoHistory /\ cycles = 0
    /\ credentials = NoCredentials /\ rpc = NoRpc
    /\ connection = NoConnection /\ signing = NoSigning
    /\ chain = NoChain /\ scan = NoScan
    /\ exec = NoExec
    /\ http = NoHttp
    /\ json = NoJson
    /\ ws = NoWs
    /\ ledger = NoLedger /\ activity = NoActivity
    /\ replacement = NoReplacement
    /\ overlap = NoOverlap

\* resolveAddress is called on a user-supplied string.
ResolveAddress ==
    /\ resolution = <<>>
    /\ \E addressOrEns \in Strings :
          resolution' = <<resolveAddress(addressOrEns, ens)>>
    /\ UNCHANGED ens

\* resolveAddress is called on the address an earlier call returned.
ResolveAgain ==
    /\ Len(resolution) = 1
    /\ resolution[1].status = "ok"
    /\ resolution' = Append(resolution, resolveAddress(resolution[1].value, ens))
    /\ UNCHANGED ens

(***************************************************************************)
(* createWallet, createConnection  (src/transport/index.ts)                *)
(*                                                                         *)
(* The ethers constructors are taken by their contract: new Wallet(key)    *)
(* and HDNodeWallet.fromPhrase(phrase, , path) return a wallet or throw.   *)
(***************************************************************************)

\* Secrets explored: a well-formed key with and without the 0x prefix, a
\* malformed one with and without it, the empty string and undefined.
PrivateKeys == {Absent, "", "0xabc", "abc", "0xzz", "zz"}
Mnemonics == {Absent, "", "good phrase", "bad phrase"}
DerivationPaths == {Absent, "m/44'/60'/0'/0/1", "bad path"}
WalletTypes == {"none", "privateKey", "mnemonic", "other"}

\* privateKey.startsWith('0x')
StartsWith0x(key) == key \in {"0xabc", "0xzz"}

\* const formattedKey = privateKey.startsWith('0x') ? privateKey : `0x${privateKey}`;
FormattedKey(privateKey) ==
    IF StartsWith0x(privateKey) THEN privateKey ELSE "0x" \o privateKey

\* const path = derivationPath || "m/44'/60'/0'/0/0";
DerivationPath(derivationPath) ==
    IF Falsy(derivationPath) THEN "m/44'/60'/0'/0/0" ELSE derivationPath

NoWallet == [present |-> FALSE, kind |-> "null", secret |-> "", path |-> ""]

\* new Wallet(formattedKey, provider)
NewWallet(formattedKey) ==
    IF formattedKey = "0xabc"
    THEN [status |-> "ok",
          wallet |-> [present |-> TRUE, kind |-> "Wallet",
                      secret |-> formattedKey, path |-> ""]]
    ELSE [status |-> "error", value |-> "invalid private key"]

\* HDNodeWallet.fromPhrase(mnemonic, undefined, path).connect(provider)
FromPhrase(mnemonic, path) ==
    IF mnemonic = "good phrase" /\ path # "bad path"
    THEN [status |-> "ok",
          wallet |-> [present |-> TRUE, kind |-> "HDNodeWallet",
                      secret |-> mnemonic, path |-> path]]
    ELSE [status |-> "error", value |-> "invalid mnemonic"]

\* Faulty variant: answers null for a missing key in place of throwing.
createWalletLenient(c) ==
    IF c.walletType = "privateKey" /\ ~Falsy(c.privateKey)
    THEN NewWallet(FormattedKey(c.privateKey))
    ELSE [status |-> "ok", wallet |-> NoWallet]
createWallet(c) ==
    CASE c.walletType = "none" -> [status |-> "ok", wallet |-> NoWallet]
      [] c.walletType = "privateKey" ->
            IF Falsy(c.privateKey) THEN Error("Private key is required")
            ELSE NewWallet(FormattedKey(c.privateKey))
      [] c.walletType = "mnemonic" ->
            IF Falsy(c.mnemonic) THEN Error("Mnemonic phrase is required")
            ELSE FromPhrase(c.mnemonic, DerivationPath(c.derivationPath))
      [] OTHER -> Error("Unknown wallet type: " \o c.walletType)

\* isReadOnly: !wallet
IsReadOnly(wallet) == ~wallet.present

\* createProvider throws what buildRpcUrl throws; createWallet follows.
createConnection(c) ==
    LET rpcUrl == buildRpcUrl(c)
        made == createWallet(c)
    IN  IF rpcUrl.status = "error" THEN rpcUrl
        ELSE IF made.status = "error" THEN made
        ELSE [status |-> "ok", provider |-> rpcUrl.value, wallet |-> made.wallet,
              networkId |-> c.network, isReadOnly |-> IsReadOnly(made.wallet)]

InitConnect ==
    /\ credentials \in [network : {"sepolia", "custom", "localnet"},
                        rpcProvider : {"public", "infura", "custom"},
                        apiKey : {Absent, "KEY123"},
                        customRpcUrl : {Absent, "https://node.example/rpc"},
                        walletType : WalletTypes,
                        privateKey : PrivateKeys,
                        mnemonic : Mnemonics,
                        derivationPath : DerivationPaths]
    /\ connection = [status |-> "none"]
    /\ rpc = NoRpc /\ signing = NoSigning
    /\ params = NoParams /\ staticData = NoStaticData
    /\ cycle = NoCycle /\ history = NoHistory /\ cycles = 0
    /\ ens = NoEns /\ resolution = NoResolution
    /\ chain = NoChain /\ scan = NoScan
    /\ exec = NoExec
    /\ http = NoHttp
    /\ json = NoJson
    /\ ws = NoWs
    /\ ledger = NoLedger /\ activity = NoActivity
    /\ replacement = NoReplacement
    /\ overlap = NoOverlap

\* createConnection(credentials) is called.
CreateConnection ==
    /\ connection.status = "none"
    /\ connection' = createConnection(credentials)
    /\ UNCHANGED credentials

(***************************************************************************)
(* The operations on a connection  (operations/transaction, token,         *)
(* contract, nft): what each does, in order, up to its transaction.        *)
(*   wallet    the `if (!connection.wallet) throw` guard                   *)
(*   lengths   the tokenIds / amounts length comparison                    *)
(*   resolve   await resolveAddress(..., connection.provider)              *)
(*   provider  an awaited call on the provider or a read of a contract     *)
(*   submit    the call that signs and sends a transaction                 *)
(***************************************************************************)
SigningOps ==
    {"sendEth", "speedUpTransaction", "cancelTransaction", "writeContract",
     "deployContract", "transferToken", "approveToken", "transferTokenFrom",
     "revokeTokenApproval", "transferNFT", "approveNFT", "setNFTApprovalForAll",
     "transferERC1155", "batchTransferERC1155"}
ReadOps == {"getTransaction", "estimateGas", "readContract", "getTokenBalance"}

Steps(op) ==
    CASE op = "sendEth" -> <<"wallet", "resolve", "submit">>
      [] op = "speedUpTransaction" -> <<"wallet", "provider", "provider", "submit">>
      [] op = "cancelTransaction" ->
            <<"wallet", "provider", "provider", "provider", "submit">>
      [] op = "writeContract" -> <<"wallet", "resolve", "submit">>
      [] op = "deployContract" -> <<"wallet", "submit", "provider", "provider">>
      [] op \in {"transferToken", "approveToken", "revokeTokenApproval"} ->
            <<"wallet", "resolve", "resolve", "provider", "submit">>
      [] op = "transferTokenFrom" ->
            <<"wallet", "resolve", "resolve", "resolve", "provider", "submit">>
      [] op \in {"transferNFT", "approveNFT", "setNFTApprovalForAll",
                 "transferERC1155"} ->
            <<"wallet", "resolve", "resolve", "submit">>
      [] op = "batchTransferERC1155" ->
            <<"wallet", "lengths", "resolve", "resolve", "submit">>
      [] op = "getTransaction" -> <<"provider", "provider">>
      [] op = "estimateGas" -> <<"resolve", "provider">>
      [] op = "readContract" -> <<"resolve", "provider">>
      [] op = "getTokenBalance" -> <<"resolve", "resolve", "provider">>

\* The message of the guard of each operation.
WalletRequired(op) ==
    CASE op = "sendEth" -> "Wallet required to send transactions"
      [] op = "speedUpTransaction" -> "Wallet required to speed up transactions"
      [] op = "cancelTransaction" -> "Wallet required to cancel transactions"
      [] op = "writeContract" -> "Wallet required to write to contracts"
      [] op = "deployContract" -> "Wallet required to deploy contracts"
      [] op \in {"approveToken", "revokeTokenApproval"} ->
            "Wallet required to approve tokens"
      [] op = "transferNFT" -> "Wallet required to transfer NFTs"
      [] op = "approveNFT" -> "Wallet required to approve NFTs"
      [] op = "setNFTApprovalForAll" -> "Wallet required to set approval"
      [] OTHER -> "Wallet required to transfer tokens"

\* Faulty variant: the guard never fires.
WalletMissingNever(conn) == FALSE
\* if (!connection.wallet)
WalletMissing(conn) == ~conn.wallet.present

\* The operation run from step i on; failAt is the step at which a call
\* throws (0: none does). `done` has the calls made so far.
RECURSIVE RunFrom(_, _, _, _, _)
RunFrom(op, conn, failAt, i, done) ==
    IF i > Len(Steps(op)) THEN [done EXCEPT !.status = "ok"]
    ELSE LET step == Steps(op)[i]
             count == [done EXCEPT ![step] = @ + 1]
         IN  IF step = "wallet" THEN
                 IF WalletMissing(conn)
                 THEN [done EXCEPT !.status = "error", !.error = WalletRequired(op)]
                 ELSE RunFrom(op, conn, failAt, i + 1, done)
             ELSE IF i = failAt
             THEN [count EXCEPT !.status = "error", !.error = step \o " failed"]
             ELSE RunFrom(op, conn, failAt, i + 1, count)

RunOp(op, conn, failAt) ==
    RunFrom(op, conn, failAt, 1,
            [op |-> op, status |-> "running", error |-> "", lengths |-> 0,
             resolve |-> 0, provider |-> 0, submit |-> 0])

\* The credentials the connections operated on are made from.
SigningCredentials ==
    [network : {"sepolia", "mainnet"}, rpcProvider : {"public"},
     apiKey : {Absent}, customRpcUrl : {Absent},
     walletType : {"none", "privateKey", "mnemonic"},
     privateKey : {Absent, "abc"}, mnemonic : {Absent, "good phrase"},
     derivationPath : {Absent}]

InitSign ==
    /\ credentials \in SigningCredentials
    /\ connection = createConnection(credentials)
    /\ connection.status = "ok"
    /\ signing = [status |-> "none"]
    /\ rpc = NoRpc
    /\ params = NoParams /\ staticData = NoStaticData
    /\ cycle = NoCycle /\ history = NoHistory /\ cycles = 0
    /\ ens = NoEns /\ resolution = NoResolution
    /\ chain = NoChain /\ scan = NoScan
    /\ exec = NoExec
    /\ http = NoHttp
    /\ json = NoJson
    /\ ws = NoWs
    /\ ledger = NoLedger /\ activity = NoActivity
    /\ replacement = NoReplacement
    /\ overlap = NoOverlap

\* One operation is called on the connection and runs until it returns or
\* throws.
Operate ==
    /\ signing.status = "none"
    /\ \E op \in SigningOps \cup ReadOps, failAt \in 0..6 :
          signing' = RunOp(op, connection, failAt)
    /\ UNCHANGED <<credentials, connection>>

(***************************************************************************)
(* EthereumTrigger.poll: the contractEvent, tokenTransfer and nftTransfer  *)
(* branches, with the logs they query and the records they push.           *)
(***************************************************************************)

\* s.toLowerCase()
toLowerCase(s) == [i \in 1..Len(s) |-> ToLower(s[i])]

\* The argument null of contract.filters.Transfer: no constraint.
Null == <<"n", "u", "l", "l">>

\* Addresses as the remote node reports them in decoded logs.
LogAddresses ==
    {getChecksumAddress(<<"0", "x">> \o digits) :
        digits \in {<<"a", "a">>, <<"0", "a">>, <<"0", "0">>}}

\* tokenFilterAddress as typed by the user; <<>> is the default ''.
FilterAddresses ==
    {<<>>, <<"0", "x", "a", "a">>, <<"0", "x", "A", "a">>, <<"0", "x", "0", "a">>}

FilterTypes == {"from", "to", "either"}

\* The sender and recipient of the logs explored.
Transfers == {pair \in LogAddresses \X LogAddresses : pair[1] # pair[2]}

\* A log of the watched contract. `decodes` tells whether the log decodes
\* against the ABI in use: the EventLog has args, iface.parseLog succeeds.
LogShapes ==
    [blockNumber : 1..MaxLogBlock, from : {t[1] : t \in Transfers},
     to : {t[2] : t \in Transfers}, decodes : BOOLEAN, index : {0}]

\* The logs of the remote node: in block order, numbered in that order.
Chains ==
    UNION {{[i \in 1..k |-> [c[i] EXCEPT !.index = i]] :
              c \in {d \in [1..k -> LogShapes] :
                       /\ \A i \in 1..k : <<d[i].from, d[i].to>> \in Transfers
                       /\ \A i \in 1..(k - 1) :
                             d[i].blockNumber <= d[i + 1].blockNumber}} :
           k \in 0..MaxLogs}

\* if (filterAddress) { if (filterType === 'from') fromFilter = filterAddress;
\*                      else if (filterType === 'to') toFilter = filterAddress; }
TransferFilter(filterType, filterAddress) ==
    [from |-> IF filterAddress # <<>> /\ filterType = "from"
              THEN filterAddress ELSE Null,
     to   |-> IF filterAddress # <<>> /\ filterType = "to"
              THEN filterAddress ELSE Null]

\* The filter of the contractEvent branch constrains neither address.
EventFilter == [from |-> Null, to |-> Null]

\* Whether a topic filter admits an address of a log.
TopicMatches(filter, address) ==
    filter = Null \/ toLowerCase(filter) = toLowerCase(address)

\* contract.queryFilter(filter, fromBlock, toBlock) as the remote node
\* answers it: the logs of the range the topics admit, in chain order.
queryFilter(logs, filter, fromBlock, toBlock) ==
    SelectSeq(logs, LAMBDA log :
        /\ fromBlock <= log.blockNumber /\ log.blockNumber <= toBlock
        /\ TopicMatches(filter.from, log.from)
        /\ TopicMatches(filter.to, log.to))

\* Faulty variant: compares the addresses as written.
PostFilterSkipsCaseSensitive(filterType, filterAddress, from, to) ==
    /\ filterType = "either" /\ filterAddress # <<>>
    /\ from # filterAddress /\ to # filterAddress
\* if (filterType === 'either' && filterAddress) {
\*     const normalizedFilter = filterAddress.toLowerCase();
\*     if (from.toLowerCase() !== normalizedFilter &&
\*         to.toLowerCase() !== normalizedFilter) continue; }
PostFilterSkips(filterType, filterAddress, from, to) ==
    /\ filterType = "either" /\ filterAddress # <<>>
    /\ toLowerCase(from) # toLowerCase(filterAddress)
    /\ toLowerCase(to) # toLowerCase(filterAddress)

\* Applies f to every element of a sequence.
Map(seq, f(_)) == [i \in 1..Len(seq) |-> f(seq[i])]

\* The record pushed for a Transfer log.
TransferRecord(log) ==
    [event |-> "Transfer", from |-> getAddress(log.from).value,
     to |-> getAddress(log.to).value, blockNumber |-> log.blockNumber,
     logIndex |-> log.index, args |-> "none"]

\* The loop over the logs of the tokenTransfer and nftTransfer branches:
\* `if (!args) continue;`, the post-filter, then returnData.push.
TransferRecords(logs, filterType, filterAddress) ==
    Map(SelectSeq(logs, LAMBDA log :
            /\ log.decodes
            /\ ~PostFilterSkips(filterType, filterAddress, log.from, log.to)),
        TransferRecord)

\* Faulty variant: no record for a log that does not parse.
ParsedEventRecords(logs) ==
    Map(SelectSeq(logs, LAMBDA log : log.decodes),
        LAMBDA log : [event |-> "contractEvent", from |-> <<>>, to |-> <<>>,
                      blockNumber |-> log.blockNumber, logIndex |-> log.index,
                      args |-> "parsed"])
\* The loop over the logs of the contractEvent branch: parsedArgs stays {}
\* when iface.parseLog throws, and returnData.push follows the try / catch.
EventRecords(logs) ==
    Map(logs,
        LAMBDA log : [event |-> "contractEvent", from |-> <<>>, to |-> <<>>,
                      blockNumber |-> log.blockNumber, logIndex |-> log.index,
                      args |-> IF log.decodes THEN "parsed" ELSE "empty"])

LogEvents == {"contractEvent", "tokenTransfer", "nftTransfer"}

\* One whole run of poll() on one of the three log branches. `throws` tells
\* whether a call of the branch throws (the query, or the token's name,
\* symbol or decimals).
ScanRun(p, sd, logs, currentBlock, throws) ==
    LET lastBlock == IF sd.isSet THEN sd.lastBlock
                     ELSE SeedLastBlock(p.options, currentBlock)
        fromBlock == FromBlock(lastBlock)
        toBlock   == ToBlock(currentBlock, fromBlock, BatchSize(p.options))
        filter    == IF p.event = "contractEvent" THEN EventFilter
                     ELSE TransferFilter(p.tokenFilterType, p.tokenFilterAddress)
        returned  == queryFilter(logs, filter, fromBlock, toBlock)
        records   == IF p.event = "contractEvent" THEN EventRecords(returned)
                     ELSE TransferRecords(returned, p.tokenFilterType,
                                          p.tokenFilterAddress)
        seen      == [status |-> "idle", result |-> "null", before |-> lastBlock,
                      fromBlock |-> fromBlock, toBlock |-> toBlock,
                      filter |-> filter, returned |-> <<>>, emitted |-> <<>>,
                      threw |-> FALSE]
    IN  IF NoNewBlocks(currentBlock, lastBlock) THEN
            [sd |-> [isSet |-> TRUE, lastBlock |-> lastBlock], scan |-> seen]
        ELSE IF throws THEN
            [sd |-> [isSet |-> TRUE,
                     lastBlock |-> WatermarkOnError(lastBlock, toBlock, currentBlock)],
             scan |-> [seen EXCEPT !.status = "error", !.result = "error",
                                   !.threw = TRUE]]
        ELSE
            [sd |-> [isSet |-> TRUE,
                     lastBlock |-> WatermarkOnSuccess(lastBlock, toBlock, currentBlock)],
             scan |-> [seen EXCEPT !.status = "ok",
                                   !.result = IF records = <<>> THEN "null" ELSE "data",
                                   !.returned = returned,
                                   !.emitted = records]]

InitScan ==
    /\ params \in [event : LogEvents, tokenFilterType : FilterTypes,
                   tokenFilterAddress : FilterAddresses,
                   options : [batchSize : {0, 1}, startBlock : {1}]]
    /\ params.event = "contractEvent" =>
          params.tokenFilterType = "from" /\ params.tokenFilterAddress = <<>>
    /\ staticData = NoStaticData
    /\ chain \in Chains
    /\ scan = [status |-> "none"]
    /\ cycle = NoCycle /\ history = NoHistory /\ cycles = 0
    /\ credentials = NoCredentials /\ rpc = NoRpc
    /\ ens = NoEns /\ resolution = NoResolution
    /\ connection = NoConnection /\ signing = NoSigning
    /\ exec = NoExec
    /\ http = NoHttp
    /\ json = NoJson
    /\ ws = NoWs
    /\ ledger = NoLedger /\ activity = NoActivity
    /\ replacement = NoReplacement
    /\ overlap = NoOverlap

\* The host runs the first poll cycle of the trigger to its end.
Scan ==
    /\ scan.status = "none"
    /\ \E currentBlock \in 1..MaxLogBlock, throws \in BOOLEAN :
          LET run == ScanRun(params, staticData, chain, currentBlock, throws)
          IN  staticData' = run.sd /\ scan' = run.scan
    /\ UNCHANGED <<params, chain>>

(***************************************************************************)
(* Ethereum.execute  (nodes/Ethereum/Ethereum.node.ts of the library-based *)
(* node): the loop over the input items. The operation of an item is       *)
(* awaited inside the try block, so it is a step of its own between its    *)
(* start and its completion or failure.                                    *)
(***************************************************************************)

\* What an operation, or the making of the connection, may throw.
ErrorsThrown ==
    {[isError |-> TRUE, message |-> "Network error"],
     [isError |-> TRUE, message |-> "Wallet required to send transactions"],
     [isError |-> FALSE, message |-> Absent]}

\* error instanceof Error ? error.message : 'Unknown error'
ErrorMessage(error) == IF error.isError THEN error.message ELSE "Unknown error"

\* The record pushed for item i: { json: result } on success (error absent),
\* { json: { error } } from the catch block.
ResultRecord(i) == [item |-> i, error |-> Absent]
ErrorRecord(i, error) == [item |-> i, error |-> ErrorMessage(error)]

\* Faulty variant: starts an operation while one is in flight.
MayStartAlways(e) == e.status = "loop" /\ e.i < e.n
\* for (let i = 0; i < items.length; i++) { try { ... await ... } }
MayStart(e) == e.status = "loop" /\ e.i < e.n /\ ~e.running

\* Faulty variant: the catch block drops the error and goes on.
CaughtSilently(e, error) ==
    IF e.continueOnFail
    THEN [e EXCEPT !.i = @ + 1, !.running = FALSE,
                   !.trace = Append(@, <<"fail", e.i>>)]
    ELSE [e EXCEPT !.status = "thrown", !.error = ErrorMessage(error),
                   !.running = FALSE, !.trace = Append(@, <<"fail", e.i>>)]
\* catch (error) { if (this.continueOnFail()) { returnData.push({ json:
\*     { error: ... } }); continue; } throw error; }
Caught(e, error) ==
    IF e.continueOnFail
    THEN [e EXCEPT !.returnData = Append(@, ErrorRecord(e.i, error)),
                   !.i = @ + 1, !.running = FALSE,
                   !.trace = Append(@, <<"fail", e.i>>)]
    ELSE [e EXCEPT !.status = "thrown", !.error = ErrorMessage(error),
                   !.running = FALSE, !.trace = Append(@, <<"fail", e.i>>)]

InitExec ==
    /\ exec \in [status : {"new"}, n : 0..MaxItems, continueOnFail : BOOLEAN,
                 i : {0}, running : {FALSE}, returnData : {<<>>},
                 trace : {<<>>}, error : {""}, output : {<<>>}]
    /\ params = NoParams /\ staticData = NoStaticData
    /\ cycle = NoCycle /\ history = NoHistory /\ cycles = 0
    /\ credentials = NoCredentials /\ rpc = NoRpc
    /\ ens = NoEns /\ resolution = NoResolution
    /\ connection = NoConnection /\ signing = NoSigning
    /\ chain = NoChain /\ scan = NoScan
    /\ http = NoHttp
    /\ json = NoJson
    /\ ws = NoWs
    /\ ledger = NoLedger /\ activity = NoActivity
    /\ replacement = NoReplacement
    /\ overlap = NoOverlap

\* getInputData, getCredentials, createConnectionFromCredentials and the
\* two parameters read before the loop: outside the try block.
ExecBegin ==
    /\ exec.status = "new"
    /\ \/ exec' = [exec EXCEPT !.status = "loop"]
       \/ \E error \in ErrorsThrown :
             exec' = [exec EXCEPT !.status = "thrown",
                                  !.error = ErrorMessage(error)]

\* The loop enters the try block of item i and awaits its operation.
ExecStartItem ==
    /\ MayStart(exec)
    /\ exec' = [exec EXCEPT !.running = TRUE,
                            !.trace = Append(@, <<"start", exec.i>>)]

\* The operation of item i returns: returnData.push({ json: result }).
ExecItemDone ==
    /\ exec.status = "loop" /\ exec.running
    /\ exec' = [exec EXCEPT !.returnData = Append(@, ResultRecord(exec.i)),
                            !.i = @ + 1, !.running = FALSE,
                            !.trace = Append(@, <<"end", exec.i>>)]

\* The operation of item i throws.
ExecItemFailed ==
    /\ exec.status = "loop" /\ exec.running
    /\ \E error \in ErrorsThrown : exec' = Caught(exec, error)

\* return [returnData];
ExecReturn ==
    /\ exec.status = "loop" /\ ~exec.running /\ exec.i >= exec.n
    /\ exec' = [exec EXCEPT !.status = "returned", !.output = exec.returnData]

(***************************************************************************)
(* The resource handlers of the HTTP-based node                            *)
(* (nodes/Ethereum/Ethereum.node.ts, executeAccountOperations to           *)
(* executeEnsOperations): one iteration of the loop, for one input item.   *)
(***************************************************************************)

\* The check each case of each handler makes on the response it awaited:
\*   error       if (response.error) throw new NodeApiError(...)
\*   none        result = await this.helpers.httpRequest(options)
\*   status0     if (status === '0' && message !== 'No transactions found') throw
\*   statusNot1  if (response.status !== '1') throw
RpcOperations ==
    {<<"account", op, "error">> :
        op \in {"getBalance", "getTransactionCount", "getCode"}}
    \cup {<<"transaction", op, "error">> :
        op \in {"sendRawTransaction", "getTransactionByHash",
                "getTransactionReceipt", "estimateGas", "gasPrice", "feeHistory"}}
    \cup {<<"smartContract", op, "none">> : op \in {"call", "estimateGas", "getLogs"}}
    \cup {<<"block", op, "error">> :
        op \in {"getBlockByNumber", "getBlockByHash", "blockNumber",
                "getBlockTransactionCountByNumber", "getUncleByBlockNumberAndIndex"}}
    \cup {<<"token", op, "error">> :
        op \in {"getTokenBalance", "getTokenMetadata", "getTransferEvents"}}
    \cup {<<"nft", op, "error">> :
        op \in {"getNftOwner", "getNftMetadataUri", "getNftBalance",
                "getNftTransferEvents"}}
    \cup {<<"ens", op, "error">> :
        op \in {"resolveName", "reverseResolve", "getResolver", "getRecord",
                "getEvents"}}

ExplorerOperations ==
    {<<"account", "getAccountTransactions", "status0">>,
     <<"smartContract", "getContractABI", "none">>,
     <<"smartContract", "getSourceCode", "none">>,
     <<"token", "getTokenBalanceEtherscan", "statusNot1">>,
     <<"token", "getTokenSupply", "statusNot1">>,
     <<"nft", "getNftTransfers", "status0">>}

\* What a JSON-RPC endpoint answers: a result, or an error object (held by
\* its message).
RpcResponses ==
    {[error |-> Absent, result |-> "0x1bc16d674ec80000"],
     [error |-> "Invalid address", result |-> Absent],
     [error |-> "execution reverted", result |-> Absent]}

\* What the explorer answers: the envelope {status, message, result}.
ExplorerResponses ==
    {[status |-> "1", message |-> "OK", result |-> "data"],
     [status |-> "0", message |-> "NOTOK", result |-> "Invalid API Key"],
     [status |-> "0", message |-> "NOTOK",
      result |-> "Contract source code not verified"],
     [status |-> "0", message |-> "No transactions found", result |-> "[]"],
     [status |-> Absent, message |-> Absent, result |-> Absent]}

\* Whether the case throws on the response.
Raises(check, response) ==
    CASE check = "error" -> response.error # Absent
      [] check = "none" -> FALSE
      [] check = "status0" ->
            response.status = "0" /\ response.message # "No transactions found"
      [] check = "statusNot1" -> response.status # "1"

\* One iteration of the loop of a handler: the request is awaited, the
\* response checked, and a record pushed or an error thrown, which the catch
\* block turns into an error record when continue-on-fail is enabled.
HandleItem(h, requestFails) ==
    IF requestFails \/ Raises(h.check, h.response)
    THEN [h EXCEPT !.status = "done",
                   !.outcome = IF h.continueOnFail THEN "errorRecord" ELSE "thrown"]
    ELSE [h EXCEPT !.status = "done", !.outcome = "success"]

InitHttp ==
    /\ http \in
          {[status |-> "none", resource |-> op[1], operation |-> op[2],
            check |-> op[3], api |-> "rpc", response |-> response,
            continueOnFail |-> continueOnFail, outcome |-> "none"] :
              op \in RpcOperations, response \in RpcResponses,
              continueOnFail \in BOOLEAN}
          \cup
          {[status |-> "none", resource |-> op[1], operation |-> op[2],
            check |-> op[3], api |-> "explorer", response |-> response,
            continueOnFail |-> continueOnFail, outcome |-> "none"] :
              op \in ExplorerOperations, response \in ExplorerResponses,
              continueOnFail \in BOOLEAN}
    /\ params = NoParams /\ staticData = NoStaticData
    /\ cycle = NoCycle /\ history = NoHistory /\ cycles = 0
    /\ credentials = NoCredentials /\ rpc = NoRpc
    /\ ens = NoEns /\ resolution = NoResolution
    /\ connection = NoConnection /\ signing = NoSigning
    /\ chain = NoChain /\ scan = NoScan
    /\ exec = NoExec
    /\ json = NoJson
    /\ ws = NoWs
    /\ ledger = NoLedger /\ activity = NoActivity
    /\ replacement = NoReplacement
    /\ overlap = NoOverlap

\* The handler processes the item.
Handle ==
    /\ http.status = "none"
    /\ \E requestFails \in BOOLEAN : http' = HandleItem(http, requestFails)

(***************************************************************************)
(* toJsonSafe  (utils/index.ts)                                            *)
(*                                                                         *)
(* A JavaScript value is a record tagged with its type: a bigint holds an  *)
(* integer, the other primitives hold their literal, an array holds its    *)
(* items and an object its entries (key, value) in Object.entries order.   *)
(***************************************************************************)

\* Number.prototype.toString of one decimal digit.
Digit(d) ==
    CASE d = 0 -> "0" [] d = 1 -> "1" [] d = 2 -> "2" [] d = 3 -> "3"
      [] d = 4 -> "4" [] d = 5 -> "5" [] d = 6 -> "6" [] d = 7 -> "7"
      [] d = 8 -> "8" [] d = 9 -> "9"

\* BigInt.prototype.toString(): the decimal digits, after a minus sign for
\* a negative value.
RECURSIVE Digits(_)
Digits(n) == IF n < 10 THEN Digit(n) ELSE Digits(n \div 10) \o Digit(n % 10)
toString(n) == IF n < 0 THEN "-" \o Digits(-n) ELSE Digits(n)

JsNull == [type |-> "null"]
JsUndefined == [type |-> "undefined"]
JsBigInt(n) == [type |-> "bigint", big |-> n]
JsString(s) == [type |-> "string", value |-> s]
JsNumber(literal) == [type |-> "number", value |-> literal]
JsArray(items) == [type |-> "array", items |-> items]
JsObject(entries) == [type |-> "object", entries |-> entries]

\* Faulty variant: converts the items of an array only when it is the value
\* passed in, not when it is nested.
RECURSIVE toJsonSafeShallow(_)
toJsonSafeShallow(value) ==
    IF value.type \in {"null", "undefined"} THEN value
    ELSE IF value.type = "bigint" THEN JsString(toString(value.big))
    ELSE IF value.type = "array" THEN
        JsArray([i \in 1..Len(value.items) |->
                    IF value.items[i].type = "bigint"
                    THEN JsString(toString(value.items[i].big))
                    ELSE value.items[i]])
    ELSE IF value.type = "object" THEN
        JsObject([i \in 1..Len(value.entries) |->
                    <<value.entries[i][1], toJsonSafeShallow(value.entries[i][2])>>])
    ELSE value
\* export function toJsonSafe(value: unknown): unknown
RECURSIVE toJsonSafe(_)
toJsonSafe(value) ==
    IF value.type \in {"null", "undefined"} THEN value
    ELSE IF value.type = "bigint" THEN JsString(toString(value.big))
    ELSE IF value.type = "array" THEN
        JsArray([i \in 1..Len(value.items) |-> toJsonSafe(value.items[i])])
    ELSE IF value.type = "object" THEN
        JsObject([i \in 1..Len(value.entries) |->
                    <<value.entries[i][1], toJsonSafe(value.entries[i][2])>>])
    ELSE value

\* The values explored: primitives, containers of primitives, and containers
\* of those. An array has up to two items; an object has up to two of the
\* keys value, amount and nested.
Primitives ==
    {JsNull, JsUndefined, JsBigInt(123), JsBigInt(-50), JsNumber("123"),
     JsString("123")}
ArraysOf(S) == {JsArray(items) : items \in UNION {[1..k -> S] : k \in 0..2}}
ObjectsOf(S) ==
    {JsObject(<<>>)}
    \cup {JsObject(<<<<key, v>>>>) : key \in {"value", "amount"}, v \in S}
    \cup {JsObject(<<<<"value", v>>, <<"nested", w>>>>) : v \in S, w \in S}
FlatValues == Primitives \cup ArraysOf(Primitives) \cup ObjectsOf(Primitives)
NestedValues == FlatValues \cup ArraysOf(FlatValues) \cup ObjectsOf(FlatValues)

InitJson ==
    /\ json \in [status : {"none"}, input : NestedValues, once : {JsUndefined},
                 twice : {JsUndefined}]
    /\ params = NoParams /\ staticData = NoStaticData
    /\ cycle = NoCycle /\ history = NoHistory /\ cycles = 0
    /\ credentials = NoCredentials /\ rpc = NoRpc
    /\ ens = NoEns /\ resolution = NoResolution
    /\ connection = NoConnection /\ signing = NoSigning
    /\ chain = NoChain /\ scan = NoScan
    /\ exec = NoExec
    /\ http = NoHttp
    /\ ws = NoWs
    /\ ledger = NoLedger /\ activity = NoActivity
    /\ replacement = NoReplacement
    /\ overlap = NoOverlap

\* toJsonSafe(input) is called.
ToJsonSafe ==
    /\ json.status = "none"
    /\ json' = [json EXCEPT !.status = "once", !.once = toJsonSafe(json.input)]

\* toJsonSafe is called on what the first call returned.
ToJsonSafeAgain ==
    /\ json.status = "once"
    /\ json' = [json EXCEPT !.status = "twice", !.twice = toJsonSafe(json.once)]

(***************************************************************************)
(* buildWsUrl  (src/transport/index.ts)                                    *)
(***************************************************************************)

\* NETWORKS[network].wsUrls: mainnet and sepolia have the keys alchemy and
\* infura; no other network has wsUrls.
WsUrls(network) ==
    CASE network = "mainnet" ->
            [alchemy |-> "eth-mainnet.g.alchemy.com/v2",
             infura |-> "mainnet.infura.io/ws/v3", public |-> Absent]
      [] network = "sepolia" ->
            [alchemy |-> "eth-sepolia.g.alchemy.com/v2",
             infura |-> "sepolia.infura.io/ws/v3", public |-> Absent]
      [] OTHER -> [alchemy |-> Absent, infura |-> Absent, public |-> Absent]

\* Faulty variant: reads wsUrls of an unknown network without the optional
\* chaining, which throws a TypeError.
WsLookupUnguarded(network) ==
    IF network \notin NetworkIds THEN "throws"
    ELSE IF network \in {"mainnet", "sepolia"} THEN "found" ELSE "none"
\* const networkConfig = NETWORKS[network]; networkConfig?.wsUrls
WsLookup(network) ==
    IF network \notin NetworkIds THEN "none"
    ELSE IF network \in {"mainnet", "sepolia"} THEN "found" ELSE "none"

\* networkConfig.wsUrls[rpcProvider]
WsUrl(network, rpcProvider) ==
    IF rpcProvider \in {"alchemy", "infura", "public"}
    THEN WsUrls(network)[rpcProvider]
    ELSE Absent

\* The string `${apiKey}` of a template literal.
Interpolated(apiKey) == IF apiKey = Absent THEN "undefined" ELSE apiKey

WsNull == [status |-> "null", value |-> ""]

buildWsUrl(c) ==
    IF ~Falsy(c.customWsUrl) THEN Ok(c.customWsUrl)
    ELSE IF c.rpcProvider = "custom" \/ c.network = "custom" THEN WsNull
    ELSE IF WsLookup(c.network) = "throws" THEN
        Error("TypeError: Cannot read properties of undefined")
    ELSE IF WsLookup(c.network) = "none" THEN WsNull
    ELSE IF Falsy(WsUrl(c.network, c.rpcProvider)) THEN WsNull
    ELSE CASE c.rpcProvider \in {"alchemy", "infura"} ->
                 Ok("wss://" \o WsUrl(c.network, c.rpcProvider) \o "/"
                        \o Interpolated(c.apiKey))
           [] OTHER -> WsNull

CustomWsUrls == {Absent, "", "wss://node.example/ws"}

InitWsUrl ==
    /\ credentials \in [network : Networks, rpcProvider : Providers,
                        apiKey : ApiKeys, customWsUrl : CustomWsUrls]
    /\ ws = [status |-> "none", value |-> ""]
    /\ rpc = NoRpc
    /\ params = NoParams /\ staticData = NoStaticData
    /\ cycle = NoCycle /\ history = NoHistory /\ cycles = 0
    /\ ens = NoEns /\ resolution = NoResolution
    /\ connection = NoConnection /\ signing = NoSigning
    /\ chain = NoChain /\ scan = NoScan
    /\ exec = NoExec
    /\ http = NoHttp
    /\ json = NoJson
    /\ ledger = NoLedger /\ activity = NoActivity
    /\ replacement = NoReplacement
    /\ overlap = NoOverlap

\* buildWsUrl(credentials) is called.
BuildWsUrl ==
    /\ ws.status = "none"
    /\ ws' = buildWsUrl(credentials)
    /\ UNCHANGED credentials

(***************************************************************************)
(* The specifications.                                                     *)
(***************************************************************************)
NextPoll == Poll /\ UNCHANGED <<urlVars, resolveVars, connectVars, signVars, scanVars, execVars, httpVars, jsonVars, wsVars, activityVars, replaceVars, overlapVars>>

SpecPoll == InitPoll /\ [][NextPoll]_vars

NextRpcUrl == BuildRpcUrl /\ UNCHANGED <<pollVars, resolveVars, connectVars, signVars, scanVars, execVars, httpVars, jsonVars, wsVars, activityVars, replaceVars, overlapVars>>

SpecRpcUrl == InitRpcUrl /\ [][NextRpcUrl]_vars

NextResolve ==
    (ResolveAddress \/ ResolveAgain) /\ UNCHANGED <<pollVars, urlVars, connectVars, signVars, scanVars, execVars, httpVars, jsonVars, wsVars, activityVars, replaceVars, overlapVars>>

SpecResolve == InitResolve /\ [][NextResolve]_vars

NextConnect == CreateConnection /\ UNCHANGED <<pollVars, rpc, resolveVars, signVars, scanVars, execVars, httpVars, jsonVars, wsVars, activityVars, replaceVars, overlapVars>>

SpecConnect == InitConnect /\ [][NextConnect]_vars

NextSign == Operate /\ UNCHANGED <<pollVars, rpc, resolveVars, scanVars, execVars, httpVars, jsonVars, wsVars, activityVars, replaceVars, overlapVars>>

SpecSign == InitSign /\ [][NextSign]_vars

NextScan ==
    Scan /\ UNCHANGED <<cycle, history, cycles, urlVars, resolveVars, connectVars, signVars, execVars, httpVars, jsonVars, wsVars, activityVars, replaceVars, overlapVars>>

SpecScan == InitScan /\ [][NextScan]_vars

NextExec ==
    (ExecBegin \/ ExecStartItem \/ ExecItemDone \/ ExecItemFailed \/ ExecReturn)
        /\ UNCHANGED <<pollVars, urlVars, resolveVars, connectVars, signVars, scanVars, httpVars, jsonVars, wsVars, activityVars, replaceVars, overlapVars>>

SpecExec == InitExec /\ [][NextExec]_vars

NextHttp ==
    Handle /\ UNCHANGED <<pollVars, urlVars, resolveVars, connectVars, signVars, scanVars, execVars, jsonVars, wsVars, activityVars, replaceVars, overlapVars>>

SpecHttp == InitHttp /\ [][NextHttp]_vars

NextJson ==
    (ToJsonSafe \/ ToJsonSafeAgain)
        /\ UNCHANGED <<pollVars, urlVars, resolveVars, connectVars, signVars, scanVars, execVars, httpVars, wsVars, activityVars, replaceVars, overlapVars>>

SpecJson == InitJson /\ [][NextJson]_vars

NextWsUrl ==
    BuildWsUrl
        /\ UNCHANGED <<pollVars, rpc, resolveVars, connectVars, signVars, scanVars, execVars, httpVars, jsonVars, activityVars, replaceVars, overlapVars>>

SpecWsUrl == InitWsUrl /\ [][NextWsUrl]_vars

(***************************************************************************)
(* EthereumTrigger.poll: the addressActivity branch                        *)
(* (nodes/Ethereum/Ethereum.node.ts).                                      *)
(*                                                                         *)
(* An amount of wei is a pair <<gwei, wei below one gwei>>, compared in    *)
(* that order. The minimum value is converted in double precision, so the  *)
(* conversion is the table of what IEEE-754 arithmetic yields for the      *)
(* strings explored.                                                       *)
(***************************************************************************)

\* The watched account and another one, as the remote node reports them.
Watched == getChecksumAddress(<<"0", "x", "a", "a">>)
Stranger == getChecksumAddress(<<"0", "x", "0", "a">>)

\* watchAddress as typed by the user: the account in lower case, in mixed
\* case, another account, and an ENS name.
WatchAddresses ==
    {<<"0", "x", "a", "a">>, <<"0", "x", "A", "a">>, <<"0", "x", "0", "a">>,
     <<"a", ".", "e">>}

ActivityTypes == {"all", "incoming", "outgoing"}

\* minValue as typed by the user, in ETH; '0' is the default.
MinValues == {"0", "0.57", "1.1", "abc"}

\* The values of the transactions explored, in wei.
TxValues ==
    {<<0, 0>>, <<569999999, 999999936>>, <<1100000000, 0>>, <<1100000000, 128>>}

\* a < b on amounts of wei
WeiLess(a, b) == a[1] < b[1] \/ (a[1] = b[1] /\ a[2] < b[2])

\* Math.floor(parseFloat(minValue) * 1e18): the double nearest to the product
\* of the double nearest to minValue and 1e18; NaN for a string that is no
\* number, which BigInt() rejects with a RangeError.
MinValueWei(minValue) ==
    CASE minValue = "0" -> [nan |-> FALSE, wei |-> <<0, 0>>]
      [] minValue = "0.57" -> [nan |-> FALSE, wei |-> <<569999999, 999999936>>]
      [] minValue = "1.1" -> [nan |-> FALSE, wei |-> <<1100000000, 128>>]
      [] OTHER -> [nan |-> TRUE, wei |-> <<0, 0>>]

\* watchAddress.startsWith('0x'), on a string held as its characters
startsWith0x(s) == Len(s) >= 2 /\ s[1] = "0" /\ s[2] = "x"

\* A transaction of a block; to is Null for a contract creation.
Txs == [from : {Watched, Stranger}, to : {Watched, Stranger, Null},
        value : TxValues]

\* What provider.getBlock(blockNum, true) answers: null, or a block with its
\* prefetched transactions.
NullBlock == [found |-> FALSE, prefetchedTransactions |-> <<>>]
Blocks ==
    {NullBlock} \cup
    [found : {TRUE},
     prefetchedTransactions : UNION {[1..k -> Txs] : k \in 0..MaxTxs}]

Ledgers == [1..MaxTxBlock -> Blocks]

\* const isFrom = tx.from.toLowerCase() === normalizedAddress;
isFrom(tx, normalizedAddress) == toLowerCase(tx.from) = normalizedAddress

\* const isTo = tx.to?.toLowerCase() === normalizedAddress;
isTo(tx, normalizedAddress) ==
    tx.to # Null /\ toLowerCase(tx.to) = normalizedAddress

\* The three `continue` tests and the value test of the inner loop.
Passes(tx, normalizedAddress, activityType, minValueWei) ==
    /\ isFrom(tx, normalizedAddress) \/ isTo(tx, normalizedAddress)
    /\ ~(activityType = "incoming" /\ ~isTo(tx, normalizedAddress))
    /\ ~(activityType = "outgoing" /\ ~isFrom(tx, normalizedAddress))
    /\ ~WeiLess(tx.value, minValueWei)

\* The record pushed for a transaction; its hash is its place in the ledger.
ActivityRecord(tx, normalizedAddress, blockNum, i) ==
    [type |-> IF isFrom(tx, normalizedAddress) THEN "outgoing" ELSE "incoming",
     hash |-> <<blockNum, i>>, from |-> tx.from, to |-> tx.to,
     valueWei |-> tx.value, blockNumber |-> blockNum]

\* The records pushed for the transactions i.. of one block, in order.
RECURSIVE BlockRecords(_, _, _, _, _, _)
BlockRecords(txs, i, normalizedAddress, activityType, minValueWei, blockNum) ==
    IF i > Len(txs) THEN <<>>
    ELSE (IF Passes(txs[i], normalizedAddress, activityType, minValueWei)
          THEN <<ActivityRecord(txs[i], normalizedAddress, blockNum, i)>>
          ELSE <<>>)
         \o BlockRecords(txs, i + 1, normalizedAddress, activityType,
                         minValueWei, blockNum)

\* for (let blockNum = fromBlock; blockNum <= toBlock; blockNum++): a block
\* the node does not have is skipped.
RECURSIVE RangeRecords(_, _, _, _, _, _)
RangeRecords(l, blockNum, toBlock, normalizedAddress, activityType, minValueWei) ==
    IF blockNum > toBlock THEN <<>>
    ELSE (IF l[blockNum].found
          THEN BlockRecords(l[blockNum].prefetchedTransactions, 1,
                            normalizedAddress, activityType, minValueWei,
                            blockNum)
          ELSE <<>>)
         \o RangeRecords(l, blockNum + 1, toBlock, normalizedAddress,
                         activityType, minValueWei)

\* The branch as a whole. Inputs: the range of the cycle, what resolveName
\* answers for a name (Null for no resolver), and the ledger of the node.
ActivityRun(p, fromBlock, toBlock, resolved, l) ==
    LET needsEns == ~startsWith0x(p.watchAddress)
        resolvedAddress == IF needsEns THEN resolved ELSE p.watchAddress
        normalizedAddress == toLowerCase(resolvedAddress)
        minValueWei == MinValueWei(p.minValue)
        seen == [status |-> "ok", fromBlock |-> fromBlock, toBlock |-> toBlock,
                 normalizedAddress |-> normalizedAddress, returnData |-> <<>>]
    IN  IF needsEns /\ resolved = Null THEN
            [seen EXCEPT !.status = "error", !.normalizedAddress = <<>>]
        ELSE IF minValueWei.nan THEN
            [seen EXCEPT !.status = "error"]
        ELSE
            [seen EXCEPT !.returnData =
                RangeRecords(l, fromBlock, toBlock, normalizedAddress,
                             p.activityType, minValueWei.wei)]

InitActivity ==
    /\ params \in [event : {"addressActivity"}, watchAddress : WatchAddresses,
                   activityType : ActivityTypes, minValue : MinValues]
    /\ ledger \in Ledgers
    /\ activity = [status |-> "none"]
    /\ staticData = NoStaticData
    /\ cycle = NoCycle /\ history = NoHistory /\ cycles = 0
    /\ credentials = NoCredentials /\ rpc = NoRpc
    /\ ens = NoEns /\ resolution = NoResolution
    /\ connection = NoConnection /\ signing = NoSigning
    /\ chain = NoChain /\ scan = NoScan
    /\ exec = NoExec
    /\ http = NoHttp
    /\ json = NoJson
    /\ ws = NoWs
    /\ replacement = NoReplacement
    /\ overlap = NoOverlap

\* The branch runs over the range of one poll cycle.
ScanActivity ==
    /\ activity.status = "none"
    /\ \E fromBlock \in 1..MaxTxBlock, toBlock \in 1..MaxTxBlock,
          resolved \in {Watched, Null} :
          /\ fromBlock <= toBlock
          /\ activity' = ActivityRun(params, fromBlock, toBlock, resolved, ledger)
    /\ UNCHANGED <<params, ledger, staticData>>

NextActivity ==
    ScanActivity /\ UNCHANGED <<cycle, history, cycles, urlVars, resolveVars,
                                connectVars, signVars, chain, scan, execVars,
                                httpVars, jsonVars, wsVars, replaceVars, overlapVars>>

SpecActivity == InitActivity /\ [][NextActivity]_vars

(***************************************************************************)
(* speedUpTransaction, cancelTransaction  (operations/transaction).        *)
(*                                                                         *)
(* Fees are bigint amounts of wei; a fee field that is null or undefined   *)
(* holds Unset.                                                            *)
(***************************************************************************)

\* null / undefined in a fee field
Unset == -1

\* JavaScript truthiness of a fee: null, undefined and 0n are falsy.
Truthy(fee) == fee > 0

\* gasPriceMultiplier as configured; 1.1 is the default.
Multipliers == {"1.1", "1.15", "2"}

\* Math.floor(gasPriceMultiplier * 100) in double precision.
Percent(gasPriceMultiplier) ==
    CASE gasPriceMultiplier = "1.1" -> 110
      [] gasPriceMultiplier = "1.15" -> 114
      [] gasPriceMultiplier = "2" -> 200

\* (fee * BigInt(Math.floor(gasPriceMultiplier * 100))) / 100n
Scaled(fee, gasPriceMultiplier) == (fee * Percent(gasPriceMultiplier)) \div 100

\* The fees of the transactions and of the network explored, in wei.
FeeValues == {0, 5, 10, 100}

\* What provider.getTransaction answers: null, a legacy transaction or an
\* EIP-1559 one.
NoTx ==
    [found |-> FALSE, nonce |-> 0, to |-> "none", value |-> 0,
     maxFeePerGas |-> Unset, maxPriorityFeePerGas |-> Unset, gasPrice |-> Unset]
OriginalTxs ==
    {NoTx} \cup
    {t \in [found : {TRUE}, nonce : {0, 7}, to : {"recipient"}, value : {3},
            maxFeePerGas : FeeValues \cup {Unset},
            maxPriorityFeePerGas : {Unset, 5},
            gasPrice : FeeValues] :
        /\ t.maxFeePerGas = Unset => t.maxPriorityFeePerGas = Unset
        /\ t.maxFeePerGas # Unset => t.gasPrice = t.maxFeePerGas}

\* What provider.getFeeData answers.
FeeDatas ==
    [maxFeePerGas : {Unset, 10, 100}, maxPriorityFeePerGas : {Unset, 5},
     gasPrice : {Unset, 10}]

\* A request with no fee field set.
TxRequest(to, value, nonce) ==
    [to |-> to, value |-> value, nonce |-> nonce, maxFeePerGas |-> Unset,
     maxPriorityFeePerGas |-> Unset, gasPrice |-> Unset]

NoRequest == TxRequest("none", 0, 0)

Rejected(message) ==
    [status |-> "error", message |-> message, submitted |-> FALSE,
     txRequest |-> NoRequest]

\* await connection.wallet.sendTransaction(txRequest), which may reject.
Submitted(txRequest, sendFails) ==
    [status |-> IF sendFails THEN "error" ELSE "ok",
     message |-> IF sendFails THEN "sendTransaction" ELSE "",
     submitted |-> TRUE, txRequest |-> txRequest]

speedUpTransaction(wallet, originalTx, receipt, gasPriceMultiplier, sendFails) ==
    LET txRequest == TxRequest(originalTx.to, originalTx.value, originalTx.nonce)
        newMaxFee == Scaled(originalTx.maxFeePerGas, gasPriceMultiplier)
        newPriorityFee ==
            IF Truthy(originalTx.maxPriorityFeePerGas)
            THEN Scaled(originalTx.maxPriorityFeePerGas, gasPriceMultiplier)
            ELSE Unset
    IN  IF ~wallet THEN Rejected("Wallet required to speed up transactions")
        ELSE IF ~originalTx.found THEN Rejected("Original transaction not found")
        ELSE IF receipt THEN
            Rejected("Transaction already confirmed, cannot speed up")
        ELSE IF Truthy(originalTx.maxFeePerGas) THEN
            Submitted([txRequest EXCEPT
                          !.maxFeePerGas = newMaxFee,
                          !.maxPriorityFeePerGas =
                              IF Truthy(newPriorityFee) THEN newPriorityFee
                              ELSE Unset],
                      sendFails)
        ELSE IF Truthy(originalTx.gasPrice) THEN
            Submitted([txRequest EXCEPT
                          !.gasPrice = Scaled(originalTx.gasPrice,
                                              gasPriceMultiplier)],
                      sendFails)
        ELSE Submitted(txRequest, sendFails)

\* a || b on fees
Or(a, b) == IF Truthy(a) THEN a ELSE b

cancelTransaction(wallet, originalTx, receipt, feeData, gasPriceMultiplier, sendFails) ==
    LET txRequest == TxRequest("wallet", 0, originalTx.nonce)
        originalMaxFee == Or(originalTx.maxFeePerGas, feeData.maxFeePerGas)
        originalPriority ==
            Or(originalTx.maxPriorityFeePerGas, feeData.maxPriorityFeePerGas)
        originalGasPrice == Or(originalTx.gasPrice, feeData.gasPrice)
    IN  IF ~wallet THEN Rejected("Wallet required to cancel transactions")
        ELSE IF ~originalTx.found THEN Rejected("Original transaction not found")
        ELSE IF receipt THEN
            Rejected("Transaction already confirmed, cannot cancel")
        ELSE IF Truthy(feeData.maxFeePerGas) THEN
            Submitted([txRequest EXCEPT
                          !.maxFeePerGas =
                              Scaled(originalMaxFee, gasPriceMultiplier),
                          !.maxPriorityFeePerGas =
                              IF Truthy(feeData.maxPriorityFeePerGas)
                              THEN Scaled(originalPriority, gasPriceMultiplier)
                              ELSE Unset],
                      sendFails)
        ELSE IF Truthy(feeData.gasPrice) THEN
            Submitted([txRequest EXCEPT
                          !.gasPrice = Scaled(originalGasPrice,
                                              gasPriceMultiplier)],
                      sendFails)
        ELSE Submitted(txRequest, sendFails)

InitReplace ==
    /\ replacement \in [status : {"none"}, wallet : BOOLEAN,
                        originalTx : OriginalTxs, receipt : BOOLEAN,
                        feeData : FeeDatas, gasPriceMultiplier : Multipliers]
    /\ params = NoParams /\ staticData = NoStaticData
    /\ cycle = NoCycle /\ history = NoHistory /\ cycles = 0
    /\ credentials = NoCredentials /\ rpc = NoRpc
    /\ ens = NoEns /\ resolution = NoResolution
    /\ connection = NoConnection /\ signing = NoSigning
    /\ chain = NoChain /\ scan = NoScan
    /\ exec = NoExec
    /\ http = NoHttp
    /\ json = NoJson
    /\ ws = NoWs
    /\ ledger = NoLedger /\ activity = NoActivity
    /\ overlap = NoOverlap

\* The outcome of a call, kept with its inputs.
CallOutcome(operation, result) ==
    [status |-> result.status, operation |-> operation,
     message |-> result.message, submitted |-> result.submitted,
     txRequest |-> result.txRequest, wallet |-> replacement.wallet,
     originalTx |-> replacement.originalTx, receipt |-> replacement.receipt,
     feeData |-> replacement.feeData,
     gasPriceMultiplier |-> replacement.gasPriceMultiplier]

SpeedUp ==
    /\ replacement.status = "none"
    /\ \E sendFails \in BOOLEAN :
          replacement' =
              CallOutcome("speedUp",
                          speedUpTransaction(replacement.wallet,
                                             replacement.originalTx,
                                             replacement.receipt,
                                             replacement.gasPriceMultiplier,
                                             sendFails))

Cancel ==
    /\ replacement.status = "none"
    /\ \E sendFails \in BOOLEAN :
          replacement' =
              CallOutcome("cancel",
                          cancelTransaction(replacement.wallet,
                                            replacement.originalTx,
                                            replacement.receipt,
                                            replacement.feeData,
                                            replacement.gasPriceMultiplier,
                                            sendFails))

NextReplace ==
    (SpeedUp \/ Cancel) /\ UNCHANGED <<pollVars, urlVars, resolveVars,
                                       connectVars, signVars, scanVars,
                                       execVars, httpVars, jsonVars, wsVars,
                                       activityVars, overlapVars>>

SpecReplace == InitReplace /\ [][NextReplace]_vars

(***************************************************************************)
(* EthereumTrigger.poll started again while a cycle is suspended at an     *)
(* await. A cycle reads staticData.lastBlock, awaits the chain head, seeds *)
(* and computes its range without suspending, then awaits its query (the   *)
(* newBlock branch without block details awaits nothing) and assigns       *)
(* staticData.lastBlock. poll() takes no lock and staticData is the one    *)
(* object of the trigger.                                                  *)
(***************************************************************************)

\* The cycles that may be in flight together.
Slots == {1, 2}

IdleSlot ==
    [pc |-> "idle", run |-> 0, wasSet |-> FALSE, lastBlock |-> 0,
     currentBlock |-> 0, fromBlock |-> 0, toBlock |-> 0]

\* let lastBlock = staticData.lastBlock as number | undefined;
ReadCursor(slot, sd, run) ==
    [slot EXCEPT !.pc = "head", !.run = run, !.wasSet = sd.isSet,
                 !.lastBlock = sd.lastBlock]

\* The code between the chain-head await and the query: seeding on the
\* lastBlock read before the await, the no-new-blocks test, the range.
AfterHead(p, slot, sd, currentBlock) ==
    LET lastBlock == IF slot.wasSet THEN slot.lastBlock
                     ELSE SeedLastBlock(p.options, currentBlock)
        seeded    == IF slot.wasSet THEN sd
                     ELSE [isSet |-> TRUE, lastBlock |-> lastBlock]
        fromBlock == FromBlock(lastBlock)
        toBlock   == ToBlock(currentBlock, fromBlock, BatchSize(p.options))
        ranged    == [slot EXCEPT !.lastBlock = lastBlock,
                                  !.currentBlock = currentBlock,
                                  !.fromBlock = fromBlock, !.toBlock = toBlock]
    IN  IF NoNewBlocks(currentBlock, lastBlock) THEN
            [sd |-> seeded, slot |-> IdleSlot, done |-> {}]
        ELSE IF CanThrow(p) THEN
            [sd |-> seeded, slot |-> [ranged EXCEPT !.pc = "query"], done |-> {}]
        ELSE
            [sd |-> [isSet |-> TRUE,
                     lastBlock |-> WatermarkOnSuccess(lastBlock, toBlock,
                                                      currentBlock)],
             slot |-> IdleSlot,
             done |-> {[run |-> slot.run, fromBlock |-> fromBlock,
                        toBlock |-> toBlock]}]

InitOverlap ==
    /\ params \in [event : {"newBlock", "contractEvent"},
                   includeBlockDetails : BOOLEAN,
                   options : [batchSize : {0, 1, 2}, startBlock : {0, 2}]]
    /\ params.event # "newBlock" => ~params.includeBlockDetails
    /\ staticData = NoStaticData
    /\ overlap = [slots |-> [c \in Slots |-> IdleSlot], started |-> 0,
                  head |-> 0, processed |-> {}]
    /\ cycle = NoCycle /\ history = NoHistory /\ cycles = 0
    /\ credentials = NoCredentials /\ rpc = NoRpc
    /\ ens = NoEns /\ resolution = NoResolution
    /\ connection = NoConnection /\ signing = NoSigning
    /\ chain = NoChain /\ scan = NoScan
    /\ exec = NoExec
    /\ http = NoHttp
    /\ json = NoJson
    /\ ws = NoWs
    /\ ledger = NoLedger /\ activity = NoActivity
    /\ replacement = NoReplacement

\* The host starts a poll cycle; it runs up to `await getBlockNumber()`.
OverlapBegin(c) ==
    /\ overlap.slots[c].pc = "idle"
    /\ overlap.started < MaxCycles
    /\ overlap' = [overlap EXCEPT
                      !.started = @ + 1,
                      !.slots[c] = ReadCursor(@, staticData, overlap.started + 1)]
    /\ UNCHANGED <<params, staticData>>

\* getBlockNumber answers, the chain never shorter than it was seen, or
\* throws; the cycle runs up to the first await of its query, or to its end.
OverlapHead(c) ==
    /\ overlap.slots[c].pc = "head"
    /\ \/ /\ overlap' = [overlap EXCEPT !.slots[c] = IdleSlot]
          /\ UNCHANGED staticData
       \/ \E currentBlock \in overlap.head..MaxHead :
             LET run == AfterHead(params, overlap.slots[c], staticData,
                                  currentBlock)
             IN  /\ staticData' = run.sd
                 /\ overlap' = [overlap EXCEPT
                                   !.head = currentBlock,
                                   !.slots[c] = run.slot,
                                   !.processed = @ \cup run.done]
    /\ UNCHANGED params

\* The query of the cycle completes or throws: staticData.lastBlock = toBlock
\* either way.
OverlapFinish(c) ==
    /\ overlap.slots[c].pc = "query"
    /\ \E throws \in BOOLEAN :
          LET slot == overlap.slots[c]
              watermark ==
                  IF throws
                  THEN WatermarkOnError(slot.lastBlock, slot.toBlock,
                                        slot.currentBlock)
                  ELSE WatermarkOnSuccess(slot.lastBlock, slot.toBlock,
                                          slot.currentBlock)
          IN  /\ staticData' = [isSet |-> TRUE, lastBlock |-> watermark]
              /\ overlap' = [overlap EXCEPT
                                !.slots[c] = IdleSlot,
                                !.processed = @ \cup
                                    {[run |-> slot.run,
                                      fromBlock |-> slot.fromBlock,
                                      toBlock |-> slot.toBlock]}]
    /\ UNCHANGED params

NextOverlap ==
    (\E c \in Slots : OverlapBegin(c) \/ OverlapHead(c) \/ OverlapFinish(c))
    /\ UNCHANGED <<cycle, history, cycles, urlVars, resolveVars, connectVars,
                   signVars, scanVars, execVars, httpVars, jsonVars, wsVars,
                   activityVars, replaceVars>>

SpecOverlap == InitOverlap /\ [][NextOverlap]_vars

(***************************************************************************)
(* Claims about the poll cursor.                                           *)
(***************************************************************************)

\* The batch size a cycle works with, as the configuration states it.
ConfiguredBatchSize ==
    IF params.options.batchSize = 0 THEN 100 ELSE params.options.batchSize

\* C1: once staticData.lastBlock has been set, its value never decreases from
\* the end of one poll cycle to the end of the next, for any chain head, event
\* type and configured batchSize, and whether the cycle succeeds, emits
\* nothing or throws.
C1_WatermarkNeverDecreases ==
    [][staticData.isSet =>
         staticData'.isSet /\ staticData'.lastBlock >= staticData.lastBlock]_vars

\* C2: a poll cycle that observes currentBlock <= lastBlock returns null,
\* executes no event-type query and leaves lastBlock as it was.
C2_IdleCycle ==
    (cycle.outcome \in {"idle", "processed"} /\ cycle.currentBlock <= cycle.lastBlock) =>
        /\ cycle.outcome = "idle"
        /\ cycle.result = "null"
        /\ cycle.query = "none"
        /\ cycle.emitted = 0
        /\ staticData.isSet
        /\ staticData.lastBlock = cycle.lastBlock
        /\ cycle.wasSet => staticData.lastBlock = cycle.before

\* C2 witness: a cycle after the watermark was set finds the chain head equal
\* to the watermark.
C2_Witness ==
    /\ cycle.outcome = "idle"
    /\ cycle.wasSet
    /\ cycle.currentBlock = cycle.lastBlock

\* C3: in a poll cycle with currentBlock > lastBlock the processed range is
\* exactly [lastBlock + 1, min(currentBlock, lastBlock + batchSize)], batchSize
\* defaulting to 100: when currentBlock - lastBlock > batchSize the cycle
\* processes exactly batchSize blocks and the watermark advances by exactly
\* batchSize; otherwise the range ends at the chain head and the watermark ends
\* equal to currentBlock.
C3_RangeAndAdvance ==
    (cycle.outcome \in {"idle", "processed"} /\ cycle.currentBlock > cycle.lastBlock) =>
        /\ cycle.outcome = "processed"
        /\ cycle.fromBlock = cycle.lastBlock + 1
        /\ cycle.toBlock = Min(cycle.currentBlock, cycle.lastBlock + ConfiguredBatchSize)
        /\ IF cycle.currentBlock - cycle.lastBlock > ConfiguredBatchSize
           THEN /\ Cardinality(cycle.fromBlock..cycle.toBlock) = ConfiguredBatchSize
                /\ staticData.lastBlock = cycle.lastBlock + ConfiguredBatchSize
           ELSE /\ cycle.toBlock = cycle.currentBlock
                /\ staticData.lastBlock = cycle.currentBlock

\* C4: when the event-type query throws during a processing cycle, lastBlock
\* is set to that cycle's toBlock (not to currentBlock, not left as it was)
\* and the error is rethrown; on success lastBlock is likewise set to toBlock
\* whether or not any record was emitted.
C4_AdvanceToToBlock ==
    cycle.outcome = "processed" =>
        /\ staticData.isSet
        /\ staticData.lastBlock = cycle.toBlock
        /\ cycle.toBlock = Min(cycle.currentBlock, cycle.lastBlock + ConfiguredBatchSize)
        /\ cycle.result \in {"error", "null", "data"}
        /\ cycle.result = "null" <=> (cycle.result # "error" /\ cycle.emitted = 0)

\* C4 witness: a query threw in a cycle whose range was capped by the batch
\* size, so that toBlock differs from currentBlock and from the old watermark.
C4_Witness ==
    /\ cycle.outcome = "processed"
    /\ cycle.result = "error"
    /\ cycle.toBlock < cycle.currentBlock
    /\ cycle.toBlock > cycle.lastBlock
    /\ staticData.lastBlock = cycle.toBlock

\* C5: each processing cycle's fromBlock equals the previous processing
\* cycle's toBlock + 1, and no block number lies in the ranges of two
\* different cycles, also after cycles that threw.
C5_RangesContiguousDisjoint ==
    [][(cycle'.outcome = "processed" /\ cycles' # cycles /\ history.processed > 0) =>
          /\ cycle'.fromBlock = history.lastTo + 1
          /\ (cycle'.fromBlock..cycle'.toBlock) \cap history.covered = {}]_vars

\* C5 witness: a non-empty range processed right after a cycle that threw on
\* a non-empty range.
C5_Witness ==
    /\ cycle.outcome = "processed"
    /\ cycle.toBlock >= cycle.fromBlock
    /\ history.processed = 2
    /\ cycle.fromBlock - 1 \in history.covered
    /\ cycle.wasSet /\ cycle.before = cycle.fromBlock - 1

\* C23: on the first poll (lastBlock unset) lastBlock is seeded as
\* startBlock - 1 when a start block is configured and as currentBlock - 1
\* otherwise, and persisted, before the cycle decides between idle and
\* processing: the decision and the range use the seeded value, and an idle
\* first cycle leaves it in staticData.
C23_SeedOnFirstPoll ==
    (cycle.outcome \in {"idle", "processed"} /\ ~cycle.wasSet) =>
        /\ cycle.lastBlock = (IF params.options.startBlock > 0
                              THEN params.options.startBlock - 1
                              ELSE cycle.currentBlock - 1)
        /\ staticData.isSet
        /\ cycle.outcome = "idle" <=> cycle.currentBlock <= cycle.lastBlock
        /\ cycle.outcome = "idle" => staticData.lastBlock = cycle.lastBlock
        /\ cycle.outcome = "processed" => cycle.fromBlock = cycle.lastBlock + 1

\* C23 witness: a first poll with start block 1000 and the chain head below
\* it was idle and left lastBlock = 999.
C23_Witness ==
    /\ cycle.outcome = "idle" /\ ~cycle.wasSet
    /\ params.options.startBlock = 1000
    /\ cycle.currentBlock < 1000
    /\ staticData = [isSet |-> TRUE, lastBlock |-> 999]

\* C24: when no start block is configured, the first poll cycle is a
\* processing cycle over the chain head it observed and nothing below it: its
\* range starts at that head and, for a batch size of 1 or more, is exactly
\* [head, head]; no block below the first observed head is ever in a
\* processed range.
C24_FromFirstHeadOn ==
    params.options.startBlock = 0 =>
        /\ (cycle.outcome \in {"idle", "processed"} /\ ~cycle.wasSet) =>
              /\ cycle.outcome = "processed"
              /\ cycle.fromBlock = cycle.currentBlock
              /\ cycle.toBlock <= cycle.currentBlock
              /\ cycle.batchSize >= 1 => cycle.toBlock = cycle.currentBlock
        /\ history.seeded => \A b \in history.covered : b >= history.firstHead

\* C24 as stated: when no start block is configured, the first poll cycle
\* emits no record for the chain head it observed, and only blocks numbered
\* above the first observed head are ever in a processed range.
C24_AsStated ==
    params.options.startBlock = 0 =>
        /\ (cycle.outcome = "processed" /\ ~cycle.wasSet) =>
              /\ cycle.currentBlock \notin cycle.fromBlock..cycle.toBlock
              /\ cycle.emitted = 0
        /\ history.seeded => \A b \in history.covered : b > history.firstHead

\* C24 witness: a first newBlock cycle with no start block emitted one record
\* for the range [head, head], and a later cycle processed a higher range.
C24_Witness ==
    /\ params.options.startBlock = 0
    /\ params.event = "newBlock"
    /\ history.seeded /\ history.processed = 2
    /\ history.firstHead \in history.covered
    /\ cycle.fromBlock > history.firstHead
    /\ cycle.emitted >= 1

\* C25: every processing cycle runs one of the five event queries over its
\* range, whatever the value of the event parameter, so the watermark is
\* advanced only over a range a query was executed on.
C25_ExactlyOneQuery ==
    (cycle.outcome = "processed" /\ staticData.lastBlock = cycle.toBlock) =>
        cycle.query \in KnownEvents

\* C29: a poll cycle that fails before the block range is computed leaves
\* lastBlock as it was, unset included; after such a failure of the first
\* poll, the next cycle that gets a chain head seeds lastBlock from that
\* chain head (or from the start block configured).
C29_EarlyFailureLeavesCursor ==
    [][/\ cycle'.outcome = "failed" => staticData' = staticData
       /\ (/\ cycle.outcome = "failed" /\ ~staticData.isSet
           /\ cycle'.outcome \in {"idle", "processed"}) =>
              /\ staticData'.isSet
              /\ cycle'.lastBlock =
                    IF params.options.startBlock > 0
                    THEN params.options.startBlock - 1
                    ELSE cycle'.currentBlock - 1]_vars

\* C29 witness: the first poll failed early, and the second, with no start
\* block, seeded lastBlock below its own chain head and processed a range.
C29_Witness ==
    /\ cycles = 2
    /\ cycle.outcome = "processed" /\ ~cycle.wasSet
    /\ params.options.startBlock = 0
    /\ cycle.lastBlock = cycle.currentBlock - 1
    /\ staticData.isSet

(***************************************************************************)
(* Claims about buildRpcUrl.                                               *)
(***************************************************************************)

Called == rpc.status \in {"ok", "error"}

\* C6: with rpcProvider = 'custom' or network = 'custom', buildRpcUrl fails
\* with the configuration error when customRpcUrl is absent or empty, and
\* otherwise returns customRpcUrl unchanged, whatever the API key and the other
\* fields are.
C6_CustomNeedsUrl ==
    (Called /\ (credentials.rpcProvider = "custom" \/ credentials.network = "custom")) =>
        IF credentials.customRpcUrl \in {Absent, ""}
        THEN /\ rpc.status = "error"
             /\ rpc.value = "Custom RPC URL is required for custom provider/network"
        ELSE /\ rpc.status = "ok"
             /\ rpc.value = credentials.customRpcUrl

\* C6 witness: the custom network under a named provider with an API key and
\* no custom URL was refused.
C6_Witness ==
    /\ Called
    /\ credentials.network = "custom"
    /\ credentials.rpcProvider = "alchemy"
    /\ credentials.apiKey = "KEY123"
    /\ credentials.customRpcUrl = Absent
    /\ rpc.status = "error"

\* The networks whose descriptor has a hostname template for the provider.
HasTemplate(network, provider) ==
    /\ network \in NetworkIds
    /\ provider \in DOMAIN RpcUrls(network)
    /\ RpcUrls(network)[provider] # Absent

\* C7: for every (network, provider) pair with provider other than 'public'
\* and 'custom' whose descriptor has a hostname template for the provider, and
\* a non-empty API key, buildRpcUrl returns exactly
\* 'https://' + template + '/' + apiKey.
C7_TemplateSlashKey ==
    (/\ Called
     /\ credentials.rpcProvider \notin {"public", "custom"}
     /\ HasTemplate(credentials.network, credentials.rpcProvider)
     /\ credentials.apiKey \notin {Absent, ""}) =>
        /\ rpc.status = "ok"
        /\ rpc.value = "https://" \o RpcUrls(credentials.network)[credentials.rpcProvider]
                           \o "/" \o credentials.apiKey

\* C7 witness: mainnet + infura + KEY123 gives https://mainnet.infura.io/v3/KEY123.
C7_Witness ==
    /\ credentials.network = "mainnet"
    /\ credentials.rpcProvider = "infura"
    /\ credentials.apiKey = "KEY123"
    /\ rpc = [status |-> "ok", value |-> "https://mainnet.infura.io/v3/KEY123"]

\* C8: for provider 'ankr' on a network that has an ankr hostname template,
\* buildRpcUrl called with no API key succeeds and returns 'https://' + template
\* with the trailing key segment omitted.
C8_AnkrWithoutKey ==
    (/\ Called
     /\ credentials.rpcProvider = "ankr"
     /\ HasTemplate(credentials.network, "ankr")
     /\ credentials.apiKey \in {Absent, ""}) =>
        /\ rpc.status = "ok"
        /\ rpc.value = "https://" \o RpcUrls(credentials.network).ankr

C19_QuicknodePrefersCustomUrl ==
    (/\ Called
     /\ credentials.rpcProvider = "quicknode"
     /\ credentials.network \in NetworkIds
     /\ credentials.apiKey \notin {Absent, ""}
     /\ credentials.customRpcUrl \notin {Absent, ""}) =>
        /\ rpc.status = "ok"
        /\ rpc.value = credentials.customRpcUrl

(***************************************************************************)
(* Claims about resolveAddress.                                            *)
(***************************************************************************)

\* C9: resolveAddress applied to a syntactically valid hex address
\* (checksummed or lower-case) returns its checksummed form without making a
\* provider call, and is idempotent: resolving the result again returns the
\* same string.
C9_ChecksumIdempotent ==
    /\ \A n \in 1..Len(resolution) :
          isAddress(resolution[n].input) =>
             /\ resolution[n].status = "ok"
             /\ resolution[n].calls = 0
             /\ resolution[n].value = getAddress(resolution[n].input).value
             /\ Len(resolution[n].value) = HexLen + 2
             /\ \A i \in 1..HexLen :
                   LET given == resolution[n].input
                       at == IF Len(given) = HexLen THEN i ELSE i + 2
                   IN  ToLower(resolution[n].value[i + 2]) = ToLower(given[at])
    /\ (Len(resolution) = 2 /\ isAddress(resolution[1].input)) =>
          /\ resolution[2].input = resolution[1].value
          /\ resolution[2].status = "ok"
          /\ resolution[2].value = resolution[1].value
          /\ resolution[2].calls = 0

\* C9 witness: a lower-case address whose checksummed form differs from it was
\* resolved, and the result was resolved again.
C9_Witness ==
    /\ Len(resolution) = 2
    /\ isAddress(resolution[1].input)
    /\ ~MixedCase(resolution[1].input)
    /\ resolution[1].value # resolution[1].input
    /\ resolution[2].value = resolution[1].value

\* C10: on an input that is not a valid hex address, resolveAddress makes one
\* name lookup when the input contains '.', failing with the unresolvable-name
\* error when the lookup returns nothing; when the input contains no '.', it
\* fails with the invalid-address error and makes no provider call.
C10_NameOrInvalid ==
    \A n \in 1..Len(resolution) :
       LET r == resolution[n]
       IN  ~isAddress(r.input) =>
              IF \E i \in 1..Len(r.input) : r.input[i] = "."
              THEN /\ r.calls = 1
                   /\ ens = "null" =>
                         r.status = "error" /\ r.error = "Could not resolve ENS name"
              ELSE /\ r.calls = 0
                   /\ r.status = "error"
                   /\ r.error = "Invalid address or ENS name"

\* C10 witness: a prefixed string with a non-hex digit and no '.' was refused
\* without any provider call.
C10_Witness ==
    /\ Len(resolution) = 1
    /\ HasPrefix(resolution[1].input)
    /\ Len(resolution[1].input) = HexLen + 2
    /\ \E i \in 3..(HexLen + 2) : resolution[1].input[i] = "g"
    /\ \A i \in 1..(HexLen + 2) : resolution[1].input[i] # "."
    /\ resolution[1].status = "error"
    /\ resolution[1].error = "Invalid address or ENS name"
    /\ resolution[1].calls = 0

(***************************************************************************)
(* Claims about createConnection.                                          *)
(***************************************************************************)

\* C11: for every connection createConnection returns, isReadOnly is true
\* exactly when the connection has no wallet; walletType 'none' always yields
\* no wallet (isReadOnly = true), and walletType 'privateKey' or 'mnemonic'
\* yields a wallet (isReadOnly = false) or an error, never a read-only
\* connection.
C11_ReadOnlyIffNoWallet ==
    /\ connection.status = "ok" =>
          /\ connection.isReadOnly <=> ~connection.wallet.present
          /\ credentials.walletType = "none" => connection.isReadOnly
          /\ credentials.walletType \in {"privateKey", "mnemonic"} =>
                ~connection.isReadOnly /\ connection.wallet.present
          /\ credentials.walletType \in {"none", "privateKey", "mnemonic"}
    /\ (connection.status = "error" /\ credentials.walletType = "none") =>
          buildRpcUrl(credentials).status = "error"

\* C11 witness: sepolia over the public endpoint with walletType 'none' gives
\* a read-only connection to https://rpc.sepolia.org.
C11_Witness ==
    /\ connection.status = "ok"
    /\ credentials.network = "sepolia"
    /\ credentials.rpcProvider = "public"
    /\ credentials.walletType = "none"
    /\ connection.provider = "https://rpc.sepolia.org"
    /\ ~connection.wallet.present
    /\ connection.isReadOnly

(***************************************************************************)
(* Claims about the operations.                                            *)
(***************************************************************************)

\* C12: every signing operation called on a read-only connection fails with
\* its wallet-required error before any provider call or address resolution
\* is made, and submits no transaction.
C12_ReadOnlyFailsFast ==
    (/\ signing.status \in {"ok", "error"}
     /\ signing.op \in SigningOps
     /\ connection.isReadOnly) =>
        /\ signing.status = "error"
        /\ signing.error = WalletRequired(signing.op)
        /\ signing.provider = 0
        /\ signing.resolve = 0
        /\ signing.lengths = 0
        /\ signing.submit = 0

\* C12 witness: revokeTokenApproval, which reaches the guard through
\* approveToken, was refused on a connection made with walletType 'none'.
C12_Witness ==
    /\ signing.status = "error"
    /\ signing.op = "revokeTokenApproval"
    /\ credentials.walletType = "none"
    /\ connection.isReadOnly
    /\ signing.error = "Wallet required to approve tokens"
    /\ signing.submit = 0

(***************************************************************************)
(* Claims about the log branches of the trigger.                           *)
(***************************************************************************)

\* Whether a log names the filter address as its sender or its recipient,
\* letter case aside.
NamesFilterAddress(log) ==
    \/ toLowerCase(log.from) = toLowerCase(params.tokenFilterAddress)
    \/ toLowerCase(log.to) = toLowerCase(params.tokenFilterAddress)

\* C13: with tokenFilterType 'either' and a non-empty tokenFilterAddress,
\* a tokenTransfer or nftTransfer cycle queries the Transfer logs of the
\* range with neither address constrained and emits exactly the Transfer
\* logs of the range whose sender or recipient is the filter address, letter
\* case aside, in chain order; a log naming it on neither side is not emitted.
C13_EitherPostFilter ==
    (/\ scan.status = "ok"
     /\ params.event \in {"tokenTransfer", "nftTransfer"}
     /\ params.tokenFilterType = "either"
     /\ params.tokenFilterAddress # <<>>) =>
        /\ scan.filter = [from |-> Null, to |-> Null]
        /\ scan.emitted =
              Map(SelectSeq(chain, LAMBDA log :
                      /\ log.blockNumber \in scan.fromBlock..scan.toBlock
                      /\ log.decodes
                      /\ NamesFilterAddress(log)),
                  TransferRecord)
        /\ \A i \in 1..Len(scan.emitted) :
              NamesFilterAddress(scan.emitted[i])

\* C13 witness: of two Transfer logs in the range, the one sent by the
\* filter address, typed in another letter case, was emitted and the one
\* naming it on neither side was not.
C13_Witness ==
    /\ scan.status = "ok"
    /\ params.event = "tokenTransfer"
    /\ params.tokenFilterType = "either"
    /\ params.tokenFilterAddress = <<"0", "x", "a", "a">>
    /\ Len(scan.returned) = 2
    /\ Len(scan.emitted) = 1
    /\ scan.emitted[1].from # params.tokenFilterAddress
    /\ toLowerCase(scan.emitted[1].from) = params.tokenFilterAddress
    /\ \E i \in 1..2 : chain[i].decodes /\ ~NamesFilterAddress(chain[i])

\* The logs of the chain that lie in the range of the cycle.
LogsOfRange ==
    SelectSeq(chain, LAMBDA log : log.blockNumber \in scan.fromBlock..scan.toBlock)

ItemFails ==
    /\ exec.status = "loop" /\ exec.running
    /\ exec'.trace = Append(exec.trace, <<"fail", exec.i>>)

\* C14: when the operation of an input item fails, then with continue-on-fail
\* enabled one {error: message} record is pushed for that item and the loop
\* goes on to the next item; with it disabled the error is thrown, no record
\* is pushed and nothing returned, and no step follows: no later item is
\* processed.
C14_FailureHandling ==
    [][/\ (ItemFails /\ exec.continueOnFail) =>
             /\ exec'.status = "loop"
             /\ exec'.i = exec.i + 1
             /\ Len(exec'.returnData) = Len(exec.returnData) + 1
             /\ SubSeq(exec'.returnData, 1, Len(exec.returnData)) = exec.returnData
             /\ exec'.returnData[Len(exec'.returnData)].item = exec.i
             /\ exec'.returnData[Len(exec'.returnData)].error
                    \in {ErrorMessage(error) : error \in ErrorsThrown}
       /\ (ItemFails /\ ~exec.continueOnFail) =>
             /\ exec'.status = "thrown"
             /\ exec'.error \in {ErrorMessage(error) : error \in ErrorsThrown}
             /\ exec'.returnData = exec.returnData
             /\ exec'.output = <<>>
       /\ exec.status = "thrown" => exec' = exec]_vars

\* C14 witness: with continue-on-fail enabled the first of three items
\* failed, its error record was pushed and a later item was processed.
C14_Witness ==
    /\ exec.continueOnFail /\ exec.n = 3
    /\ Len(exec.trace) >= 4
    /\ exec.trace[2] = <<"fail", 0>>
    /\ exec.trace[4] = <<"end", 1>>
    /\ exec.returnData[1] = [item |-> 0, error |-> "Network error"]

\* C17: execute processes the input items one at a time in input order: the
\* operation of an item starts only after the operation of the item before
\* it has completed or failed, and when execute returns, its output has
\* exactly one record per input item, in input order.
C17_SequentialInOrder ==
    /\ \A j \in 1..Len(exec.trace) :
          IF j % 2 = 1
          THEN exec.trace[j] = <<"start", (j - 1) \div 2>>
          ELSE /\ exec.trace[j][1] \in {"end", "fail"}
               /\ exec.trace[j][2] = (j - 2) \div 2
    /\ exec.running <=> Len(exec.trace) % 2 = 1
    /\ exec.status = "returned" =>
          /\ Len(exec.output) = exec.n
          /\ \A k \in 1..exec.n : exec.output[k].item = k - 1

\* C17 witness: execute returned three records for three items, the second
\* an error record, after the three operations ran one after the other.
C17_Witness ==
    /\ exec.status = "returned" /\ exec.n = 3
    /\ exec.trace = <<<<"start", 0>>, <<"end", 0>>, <<"start", 1>>, <<"fail", 1>>,
                      <<"start", 2>>, <<"end", 2>>>>
    /\ exec.output[2].error = "Unknown error"
    /\ exec.output[3] = [item |-> 2, error |-> Absent]

(***************************************************************************)
(* Claims about the handlers of the HTTP-based node.                       *)
(***************************************************************************)

\* C15: for every operation of every resource handler that calls the
\* JSON-RPC endpoint, an answer carrying an error object makes the operation
\* throw (or, under continue-on-fail, push an error record); the answer is
\* never pushed as a success record.
C15_RpcErrorRaised ==
    (/\ http.status = "done"
     /\ http.api = "rpc"
     /\ http.response.error # Absent) =>
        http.outcome \in {"thrown", "errorRecord"}

\* C16: every explorer operation treats an envelope whose status is not "1"
\* as an error: it pushes no success record for it.
C16_ExplorerStatusChecked ==
    (/\ http.status = "done"
     /\ http.api = "explorer"
     /\ http.response.status # "1") =>
        http.outcome # "success"

(***************************************************************************)
(* Claims about toJsonSafe.                                                *)
(***************************************************************************)

\* Whether `after` is `before` with every bigint, at any depth, replaced by
\* its decimal string and all else as it was: primitives equal, arrays of
\* the same length, objects with the same keys in the same order.
RECURSIVE BigIntsReplaced(_, _)
BigIntsReplaced(before, after) ==
    CASE before.type = "bigint" ->
            /\ after.type = "string"
            /\ after.value = (IF before.big = 123 THEN "123" ELSE "-50")
      [] before.type = "array" ->
            /\ after.type = "array"
            /\ Len(after.items) = Len(before.items)
            /\ \A i \in 1..Len(before.items) :
                  BigIntsReplaced(before.items[i], after.items[i])
      [] before.type = "object" ->
            /\ after.type = "object"
            /\ Len(after.entries) = Len(before.entries)
            /\ \A i \in 1..Len(before.entries) :
                  /\ after.entries[i][1] = before.entries[i][1]
                  /\ BigIntsReplaced(before.entries[i][2], after.entries[i][2])
      [] OTHER -> after = before

\* C21: toJsonSafe replaces every bigint at any depth of nested arrays and
\* objects by its decimal string, returns null, undefined and the other
\* primitives unchanged, keeps the length of every array and the keys of
\* every object, and a second pass changes nothing.
C21_ToJsonSafe ==
    /\ json.status \in {"once", "twice"} => BigIntsReplaced(json.input, json.once)
    /\ json.status = "twice" => json.twice = json.once

\* C21 witness: {value: 123n, nested: [-50n, null]} became
\* {value: '123', nested: ['-50', null]}, and a second pass returned the same.
C21_Witness ==
    /\ json.status = "twice"
    /\ json.input = JsObject(<<<<"value", JsBigInt(123)>>,
                               <<"nested", JsArray(<<JsBigInt(-50), JsNull>>)>>>>)
    /\ json.once = JsObject(<<<<"value", JsString("123")>>,
                              <<"nested", JsArray(<<JsString("-50"), JsNull>>)>>>>)
    /\ json.twice = json.once

(***************************************************************************)
(* Claims about buildWsUrl.                                                *)
(***************************************************************************)

\* C22: buildWsUrl fails for no credentials; it returns a customWsUrl that was
\* given unchanged, and without one it returns null whenever provider or
\* network is 'custom' and whenever the network has no WebSocket template
\* for the provider.
C22_WsUrlNeverFails ==
    ws.status \in {"ok", "null", "error"} =>
        /\ ws.status # "error"
        /\ credentials.customWsUrl \notin {Absent, ""} =>
              ws = [status |-> "ok", value |-> credentials.customWsUrl]
        /\ (/\ credentials.customWsUrl \in {Absent, ""}
            /\ \/ credentials.rpcProvider = "custom"
               \/ credentials.network = "custom"
               \/ credentials.network \notin {"mainnet", "sepolia"}
               \/ credentials.rpcProvider \notin {"alchemy", "infura"}) =>
              ws.status = "null"

\* C22 witness: a network outside the table, under alchemy with a key and no
\* customWsUrl, gave null.
C22_Witness ==
    /\ ws.status = "null"
    /\ credentials.network = "localnet"
    /\ credentials.rpcProvider = "alchemy"
    /\ credentials.apiKey = "KEY123"
    /\ credentials.customWsUrl = Absent


(***************************************************************************)
(* Claims about the addressActivity branch.                                *)
(***************************************************************************)

\* The minimum value as configured: minValue ETH in wei, 'Minimum ETH value
\* to trigger'.
ConfiguredMinimumWei(minValue) ==
    CASE minValue = "0" -> <<0, 0>>
      [] minValue = "0.57" -> <<570000000, 0>>
      [] minValue = "1.1" -> <<1100000000, 0>>
      [] OTHER -> <<0, 0>>

\* Whether the transaction i of block b has a record in returnData.
EmittedTx(b, i) ==
    \E k \in 1..Len(activity.returnData) : activity.returnData[k].hash = <<b, i>>

\* C26: in a completed addressActivity scan, a transaction of a fetched block
\* of the range is emitted if and only if its from or to is the watched
\* address up to case, it passes the direction filter, and its value is at
\* least the configured minimum value.
C26_EmittedIff ==
    activity.status = "ok" =>
        \A b \in activity.fromBlock..activity.toBlock :
            ledger[b].found =>
                \A i \in 1..Len(ledger[b].prefetchedTransactions) :
                    LET tx == ledger[b].prefetchedTransactions[i]
                        watched == toLowerCase(activity.normalizedAddress)
                        from == toLowerCase(tx.from) = watched
                        to == tx.to # Null /\ toLowerCase(tx.to) = watched
                    IN  EmittedTx(b, i) <=>
                            /\ from \/ to
                            /\ params.activityType = "incoming" => to
                            /\ params.activityType = "outgoing" => from
                            /\ ~WeiLess(tx.value,
                                        ConfiguredMinimumWei(params.minValue))

\* C27: the type label of every emitted record agrees with the direction
\* filter, self-transfers of the watched address included.
C27_LabelAgreesWithFilter ==
    activity.status = "ok" =>
        \A k \in 1..Len(activity.returnData) :
            /\ params.activityType = "incoming" =>
                  activity.returnData[k].type = "incoming"
            /\ params.activityType = "outgoing" =>
                  activity.returnData[k].type = "outgoing"


(***************************************************************************)
(* Claims about speedUpTransaction and cancelTransaction.                  *)
(***************************************************************************)

\* The gas price a transaction or a request carries: maxFeePerGas, or
\* gasPrice when it has none.
CarriedPrice(t) == IF t.maxFeePerGas # Unset THEN t.maxFeePerGas ELSE t.gasPrice

\* C28: speedUpTransaction and cancelTransaction submit nothing when the
\* original transaction is not found or has a receipt; a replacement they
\* submit reuses the nonce of the original and carries a gas price strictly
\* higher than the original's.
C28_ReplacementOutbids ==
    replacement.status \in {"ok", "error"} =>
        /\ (~replacement.originalTx.found \/ replacement.receipt) =>
              ~replacement.submitted
        /\ replacement.submitted =>
              /\ replacement.txRequest.nonce = replacement.originalTx.nonce
              /\ CarriedPrice(replacement.txRequest) >
                    CarriedPrice(replacement.originalTx)


(***************************************************************************)
(* Claims about poll cycles that overlap.                                  *)
(***************************************************************************)

\* C30: with poll cycles overlapping at their awaits, the persisted
\* watermark never decreases, and no two cycles process ranges that share
\* a block.
C30_OverlapIsHarmless ==
    [][/\ (staticData.isSet /\ staticData'.isSet) =>
              staticData'.lastBlock >= staticData.lastBlock
       /\ \A r1, r2 \in overlap'.processed :
              r1.run # r2.run =>
                  (r1.fromBlock..r1.toBlock) \cap (r2.fromBlock..r2.toBlock) = {}]_vars

=============================================================================
